---------------------------- MODULE Spec2Model ----------------------------
(***************************************************************************)
(* A model of ApiMocker (src/src/mocker.ts): the fetch interceptor, its    *)
(* registry of mock endpoints, the matcher and ranker, the response        *)
(* builder, the shared state and the global fetch slot.                    *)
(*                                                                         *)
(* Representation.                                                         *)
(*  - A path string is a record [segs, lead, trail]: the segments between  *)
(*    the slashes, whether the string starts with "/" and whether it ends  *)
(*    with one after its last segment.  "/users/:id" is                    *)
(*    [segs |-> <<"users", ":id">>, lead |-> TRUE, trail |-> FALSE].       *)
(*    Segments are whole tokens (a parameter token is a segment of the     *)
(*    form ":name"); no token is a character prefix of another.            *)
(*  - An optional field (x?: T) is a sequence: <<>> when absent, <<v>>     *)
(*    when present, so that a ?? b is OrElse(a, b).                        *)
(*  - A JavaScript object is a function from its keys to its values.       *)
(*  - An endpoint object carries id, the number of its registration: the   *)
(*    identity of the object stored in the registry.                       *)
(***************************************************************************)
EXTENDS Integers, Sequences, FiniteSets, TLC

VARIABLES
    endpoints,      \* this.endpoints: the Map, as a sequence of [key, list] in insertion order
    config,         \* this.config
    isEnabled,      \* this.isEnabled
    state,          \* this.state
    originalFetch,  \* this.originalFetch (and boundOriginalFetch, bound to it)
    globalFetch,    \* globalThis.fetch
    calls,          \* the calls of the interceptor: suspended or settled, per slot
    nextId,         \* the number of registrations made so far, plus one
    appended,       \* what handlers pushed to state.todos since the state object was last replaced
    construction,   \* how `new ApiMocker(config)` ended: an instance or what it threw; None before it
    mockers         \* the further instances constructed over the same global slot, in order

vars == <<endpoints, config, isEnabled, state, originalFetch, globalFetch, calls, nextId, appended,
          construction, mockers>>

--------------------------------------------------------------------------
(* Bounds of the model *)

MaxRegs == 3
MaxTodos == 2
MaxCalls == 2
MaxCount == 2

--------------------------------------------------------------------------
(* Optional values and JavaScript objects *)

None == <<>>
Some(v) == <<v>>
OrElse(o, d) == IF o = <<>> THEN d ELSE o[1]

EmptyObject == [k \in {} |-> ""]

\* { ...a, ...b }
Spread(a, b) == [k \in (DOMAIN a) \cup (DOMAIN b) |-> IF k \in DOMAIN b THEN b[k] ELSE a[k]]

\* Values a response source or a handler yields.
Plain(d) == [t |-> "object", f |-> [payload |-> d]]
DataOnly(d) == [t |-> "object", f |-> [data |-> d]]
Descriptor(d, st) == [t |-> "object", f |-> [data |-> d, status |-> st]]
Array(items) == [t |-> "array", items |-> items]
ResponseObject(st, b) ==
    [t |-> "Response", status |-> st, body |-> Some([enc |-> "text", of |-> b]),
     headers |-> EmptyObject]
ResponseWith(st, b, headers) == [ResponseObject(st, b) EXCEPT !.headers = headers]
Undefined == [t |-> "undefined"]

--------------------------------------------------------------------------
(* Paths *)

Path(segs, lead, trail) == [segs |-> segs, lead |-> lead, trail |-> trail]

\* segment.startsWith(':')
IsParam(seg) == seg \in {":id", ":uid", ":userId", ":postId"}

\* part.substring(1)
ParamName(seg) ==
    CASE seg = ":id" -> "id"
      [] seg = ":uid" -> "uid"
      [] seg = ":userId" -> "userId"
      [] seg = ":postId" -> "postId"

normalizePath(path) == [path EXCEPT !.lead = TRUE]

trimTrailingSlash(path) == [path EXCEPT !.trail = FALSE]

createEndpointKey(method, path) == <<method, path>>

RECURSIVE SumSpecificity(_)
SumSpecificity(segs) ==
    IF segs = <<>> THEN 0
    ELSE (IF IsParam(Head(segs)) THEN 1 ELSE 10) + SumSpecificity(Tail(segs))

calculateSpecificityNoWeight(path) ==
    Len(trimTrailingSlash(normalizePath(path)).segs)

calculateSpecificity(path) ==
    SumSpecificity(trimTrailingSlash(normalizePath(path)).segs)


--------------------------------------------------------------------------
(* URLs and the configuration *)

\* A URL string: abs says whether it carries its own origin; query is the
\* sequence of <<key, value>> pairs of its query string.
Url(abs, path, query) == [abs |-> abs, path |-> path, query |-> query]

DefaultHeaders == "Content-Type" :> "application/json"

\* normalizeBaseUrl, on a base URL given by Some(<the path of the base URL>):
\* trailing slashes are stripped.
normalizeBaseUrl(baseUrl) == Some(trimTrailingSlash(baseUrl[1]))

\* createConfig: a configuration is [baseUrl, globalDelay, globalHeaders,
\* defaultPriority], its baseUrl None for ''.
createConfig(c) ==
    [baseUrl |-> IF c.baseUrl = None THEN None ELSE normalizeBaseUrl(c.baseUrl),
     globalDelay |-> OrElse(c.globalDelay, 0),
     globalHeaders |-> Spread(DefaultHeaders, OrElse(c.globalHeaders, EmptyObject)),
     defaultPriority |-> OrElse(c.defaultPriority, 0)]

\* getBasePath: '' (no segments) without a base URL or when its path is '/'.
getBasePath(cfg) ==
    IF cfg.baseUrl = None THEN <<>> ELSE normalizePath(cfg.baseUrl[1]).segs

\* toAbsoluteUrl: an absolute URL is kept; a relative one is resolved against
\* getRequestBase(), the base URL with a trailing "/": a rooted path replaces
\* the base path, an unrooted one is appended to it.
toAbsoluteUrl(cfg, url) ==
    IF url.abs \/ url.path.lead
    THEN Url(TRUE, normalizePath(url.path), url.query)
    ELSE Url(TRUE, Path(getBasePath(cfg) \o url.path.segs, TRUE, url.path.trail), url.query)

\* The segments of the model of which another segment is a proper prefix,
\* character by character, with what is left of them past the prefix
Prefixed == {[of |-> "apiv2", prefix |-> "api", rest |-> "v2"]}

\* segment.startsWith(prefix), on the characters
SegmentStartsWith(seg, prefix) ==
    \/ seg = prefix
    \/ \E p \in Prefixed : p.of = seg /\ p.prefix = prefix

\* requestPath.startsWith(basePath): a test on the characters, so the last
\* segment of the base path need only begin the request's segment
StartsWith(segs, prefix) ==
    /\ Len(prefix) <= Len(segs)
    /\ \A i \in 1..Len(prefix) :
          IF i < Len(prefix) THEN segs[i] = prefix[i]
          ELSE SegmentStartsWith(segs[i], prefix[i])

\* requestPath.slice(basePath.length), on the segments
SliceBase(segs, prefix) ==
    LET n == Len(prefix)
        rest == SubSeq(segs, n + 1, Len(segs))
    IN  IF segs[n] = prefix[n] THEN rest
        ELSE <<(CHOOSE p \in Prefixed : p.of = segs[n] /\ p.prefix = prefix[n]).rest>> \o rest

getPathWithoutBase(cfg, url) ==
    LET requestPath == normalizePath(url.path)
        basePath == getBasePath(cfg)
    IN  IF basePath # <<>> /\ StartsWith(requestPath.segs, basePath)
        THEN normalizePath(
                 Path(SliceBase(requestPath.segs, basePath),
                      TRUE,
                      requestPath.trail /\ SliceBase(requestPath.segs, basePath) # <<>>))
        ELSE requestPath

--------------------------------------------------------------------------
(* Request Matcher *)

\* String.prototype.toUpperCase, on the method names of the model
ToUpperCase(method) ==
    CASE method = "get" -> "GET"
      [] method = "post" -> "POST"
      [] OTHER -> method

\* new Request(absoluteUrl, init): the method, headers and body are those of
\* init; Headers lower-cases the names.
ToLower(name) ==
    CASE name = "Accept" -> "accept"
      [] name = "X-Mode" -> "x-mode"
      [] name = "X-Meta" -> "x-meta"
      [] name = "Content-Type" -> "content-type"
      [] OTHER -> name

LowerKeys(h) ==
    [k \in {ToLower(n) : n \in DOMAIN h} |->
        LET n == CHOOSE n \in DOMAIN h : ToLower(n) = k IN h[n]]

NewRequest(absoluteUrl, init) ==
    [url |-> absoluteUrl,
     headers |-> IF init = None THEN EmptyObject ELSE LowerKeys(init[1].headers),
     body |-> IF init = None THEN None ELSE init[1].body]

\* urlObj.searchParams.get(key): the first value of key, or null
SearchParamsGet(query, key) ==
    LET hits == {i \in 1..Len(query) : query[i][1] = key}
    IN  IF hits = {} THEN None
        ELSE Some(query[CHOOSE i \in hits : \A j \in hits : i <= j][2])

matchesPath(cfg, pattern, url) ==
    LET patternPath == trimTrailingSlash(normalizePath(pattern))
        requestPath == trimTrailingSlash(getPathWithoutBase(cfg, url))
    IN  /\ Len(patternPath.segs) = Len(requestPath.segs)
        /\ \A i \in 1..Len(patternPath.segs) :
              \/ IsParam(patternPath.segs[i])
              \/ patternPath.segs[i] = requestPath.segs[i]

matchesQueryParams(expectedParams, url) ==
    \A key \in DOMAIN expectedParams :
        SearchParamsGet(url.query, key) = Some(expectedParams[key])

extractHeaders(request) == LowerKeys(request.headers)

matchesHeadersCaseSensitive(expectedHeaders, request) ==
    \A key \in DOMAIN expectedHeaders :
        /\ key \in DOMAIN request.headers
        /\ request.headers[key] = expectedHeaders[key]

matchesHeaders(expectedHeaders, request) ==
    LET requestHeaders == extractHeaders(request)
    IN  \A key \in DOMAIN expectedHeaders :
            /\ ToLower(key) \in DOMAIN requestHeaders
            /\ requestHeaders[ToLower(key)] = expectedHeaders[key]

\* The custom predicates of the model: "special" is the one of the test suite
\* (the query parameter special is 'true'); "throws" raises.
MatchThrows(fn) == fn = "throws"

EvalMatch(fn, request) ==
    CASE fn = "special" -> SearchParamsGet(request.url.query, "special") = Some("true")
      [] OTHER -> FALSE

matchesEndpoint(cfg, endpoint, method, url, request) ==
    /\ endpoint.method = method
    /\ endpoint.match # None => EvalMatch(endpoint.match[1], request)
    /\ matchesPath(cfg, endpoint.path, url)
    /\ endpoint.queryParams # None => matchesQueryParams(endpoint.queryParams[1], url)
    /\ endpoint.requestHeaders # None => matchesHeaders(endpoint.requestHeaders[1], request)

--------------------------------------------------------------------------
(* Specificity / Priority Ranker *)

\* Array.prototype.sort: stable; Cmp(a, b) > 0 puts b before a.
StableSort(seq, Cmp(_, _)) ==
    LET Insert(sorted, x) ==
            LET n == Cardinality({i \in 1..Len(sorted) : Cmp(sorted[i], x) <= 0})
            IN  SubSeq(sorted, 1, n) \o <<x>> \o SubSeq(sorted, n + 1, Len(sorted))
        f[i \in 0..Len(seq)] == IF i = 0 THEN <<>> ELSE Insert(f[i - 1], seq[i])
    IN  f[Len(seq)]

\* The endpoint lists of the Map, one after the other, in iteration order
RECURSIVE Flatten(_)
Flatten(entries) ==
    IF entries = <<>> THEN <<>> ELSE Head(entries).list \o Flatten(Tail(entries))

compareCandidatesSpecificityFirst(a, b) ==
    IF b.specificity # a.specificity
    THEN b.specificity - a.specificity
    ELSE b.endpoint.priority - a.endpoint.priority

\* the comparator of candidates.sort in findMatchingEndpoint
compareCandidates(a, b) ==
    IF a.endpoint.priority # b.endpoint.priority
    THEN b.endpoint.priority - a.endpoint.priority
    ELSE b.specificity - a.specificity

\* the candidates array of findMatchingEndpoint, before it is sorted
Candidates(reg, cfg, method, url, request) ==
    LET all == Flatten(reg)
        hit == SelectSeq(all, LAMBDA e : matchesEndpoint(cfg, e, method, url, request))
    IN  [i \in 1..Len(hit) |->
            [endpoint |-> hit[i], specificity |-> calculateSpecificity(hit[i].path)]]

\* A predicate that throws taken for one that returned false
PredicateThrowsSwallowed(reg, method) == FALSE

\* A predicate is called for every endpoint of the request's method, before
\* its path is looked at; one that throws ends the search.
PredicateThrows(reg, method) ==
    \E i \in 1..Len(Flatten(reg)) :
        LET e == Flatten(reg)[i]
        IN  e.method = method /\ e.match # None /\ MatchThrows(e.match[1])

compareSpecificity(a, b) == b.specificity - a.specificity

\* The most specific candidate, whatever the priorities
findMatchingEndpointMostSpecific(reg, cfg, method, url, request) ==
    LET candidates == Candidates(reg, cfg, method, url, request)
    IN  IF Len(candidates) = 0 THEN None
        ELSE Some(StableSort(candidates, compareSpecificity)[1].endpoint)

\* findMatchingEndpoint: None for null
findMatchingEndpoint(reg, cfg, method, url, request) ==
    LET candidates == Candidates(reg, cfg, method, url, request)
    IN  IF Len(candidates) = 0 THEN None
        ELSE Some(StableSort(candidates, compareCandidates)[1].endpoint)

--------------------------------------------------------------------------
(* Response Resolver and Response Builder *)

\* JSON.stringify(data), kept symbolic: the text that parses back to data
Stringify(data) == [enc |-> "json", of |-> data]

\* the body of a Response or of a request: None for null / no body
serializeBody(data) ==
    IF data.t = "undefined" THEN None
    ELSE IF data.t = "string" THEN Some([enc |-> "text", of |-> data.s])
    ELSE Some(Stringify(data))

isMockResponseDataOnly(value) ==
    /\ value.t = "object"
    /\ "data" \in DOMAIN value.f

isMockResponse(value) ==
    /\ value.t = "object"
    /\ "data" \in DOMAIN value.f
    /\ ("status" \in DOMAIN value.f \/ "headers" \in DOMAIN value.f)

\* mergeHeaders(...headerGroups), each group an optional object
RECURSIVE MergeGroups(_, _)
MergeGroups(headers, groups) ==
    IF groups = <<>> THEN headers
    ELSE MergeGroups(Spread(headers, OrElse(Head(groups), EmptyObject)), Tail(groups))

mergeHeaders(cfg, headerGroups) == MergeGroups(cfg.globalHeaders, headerGroups)

Field(value, key) == IF key \in DOMAIN value.f THEN Some(value.f[key]) ELSE None

normalizeResponseNoDefinitionStatus(cfg, endpoint, responseValue) ==
    [body |-> serializeBody(responseValue),
     status |-> 200,
     headers |-> mergeHeaders(cfg, <<endpoint.headers>>)]

normalizeResponse(cfg, endpoint, responseValue) ==
    IF isMockResponse(responseValue)
    THEN [body |-> serializeBody(responseValue.f.data),
          status |-> OrElse(Field(responseValue, "status"), OrElse(endpoint.status, 200)),
          headers |-> mergeHeaders(cfg, <<endpoint.headers, Field(responseValue, "headers")>>)]
    ELSE [body |-> serializeBody(responseValue),
          status |-> OrElse(endpoint.status, 200),
          headers |-> mergeHeaders(cfg, <<endpoint.headers>>)]

\* What a call settles with.
Fulfilled(response, id) == [kind |-> "response", response |-> response, def |-> id]
RejectedWrapped(error, id) ==
    [kind |-> "failure", error |-> [name |-> "Error", message |-> "mock failed", cause |-> error],
     def |-> id]
Rejected(error, id) == [kind |-> "failure", error |-> error, def |-> id]
PassedThroughDroppingInit(fn, input, init) ==
    [kind |-> "real", fn |-> fn, input |-> input, init |-> None]
PassedThroughGlobalFetch(fn, input, init) ==
    [kind |-> "real", fn |-> "intercept", input |-> input, init |-> init]
PassedThrough(fn, input, init) == [kind |-> "real", fn |-> fn, input |-> input, init |-> init]

Error(name, message) == [name |-> name, message |-> message]

simulateNetworkErrorGeneric(errorType) ==
    Error("TypeError", "Network request failed")

simulateNetworkError(errorType) ==
    CASE errorType = "timeout" -> Error("TypeError", "Network request failed: timeout")
      [] errorType = "connection_refused" ->
            Error("TypeError", "Network request failed: connection refused")
      [] errorType = "abort" -> Error("AbortError", "The operation was aborted")
      [] OTHER -> Error("TypeError", "Network request failed")

\* new Headers(init) for a record: the names are lower-cased, and the values
\* of the keys that give one name are combined under it. A header's value is
\* kept as the set of the values joined in it: one value for a name that one
\* key gives.
NewHeaders(init) ==
    [name \in {ToLower(k) : k \in DOMAIN init} |->
        {init[k] : k \in {key \in DOMAIN init : ToLower(key) = name}}]

\* The statuses a Response with a body cannot have
NullBodyStatus == {204, 205, 304}

\* new Response(body, { status, headers }): a RangeError for a status outside
\* 200..599, a TypeError for a body with a null body status
NewResponse(body, status, headers) ==
    IF status \notin 200..599
    THEN [ok |-> FALSE, error |-> Error("RangeError", "invalid status")]
    ELSE IF body # None /\ status \in NullBodyStatus
    THEN [ok |-> FALSE, error |-> Error("TypeError", "null body status with body")]
    ELSE [ok |-> TRUE,
          v |-> [t |-> "Response", status |-> status, body |-> body,
                 headers |-> NewHeaders(headers)]]

BuildResponseApplyingDefinition(cfg, endpoint, responseValue) ==
    IF responseValue.t = "Response"
    THEN NewResponse(responseValue.body, OrElse(endpoint.status, responseValue.status),
                     mergeHeaders(cfg, <<endpoint.headers>>))
    ELSE LET n == normalizeResponse(cfg, endpoint, responseValue)
         IN  NewResponse(n.body, n.status, n.headers)

\* The end of createMockResponse, from the resolved value on: a Response is
\* returned as it is, anything else is normalized into a new Response.
BuildResponse(cfg, endpoint, responseValue) ==
    IF responseValue.t = "Response" THEN [ok |-> TRUE, v |-> responseValue]
    ELSE LET n == normalizeResponse(cfg, endpoint, responseValue)
         IN  NewResponse(n.body, n.status, n.headers)

\* What the call settles with, the value being resolved
Respond(cfg, endpoint, responseValue) ==
    LET built == BuildResponse(cfg, endpoint, responseValue)
    IN  IF built.ok THEN Fulfilled(built.v, endpoint.id)
        ELSE Rejected(built.error, endpoint.id)

\* resolveEndpointResponse for a static endpoint: its response is a value, a
\* function returning one, or a function that throws.
ResolveStatic(endpoint) ==
    IF endpoint.response.src = "throws"
    THEN [ok |-> FALSE, error |-> Error("Error", "response function failed")]
    ELSE [ok |-> TRUE, v |-> endpoint.response.v]

--------------------------------------------------------------------------
(* Request context and handlers *)

\* parseRequestBody: undefined for no text, the parsed value for JSON text,
\* else the text itself
parseRequestBody(request) ==
    IF request.body = None THEN Undefined
    ELSE IF request.body[1].enc = "json" THEN request.body[1].of
    ELSE [t |-> "string", s |-> request.body[1].of]

extractParamsFromFullPath(cfg, pattern, url) ==
    LET patternParts == trimTrailingSlash(normalizePath(pattern)).segs
        urlParts == trimTrailingSlash(normalizePath(url.path)).segs
        bound == {i \in 1..Len(patternParts) : IsParam(patternParts[i]) /\ i <= Len(urlParts)}
    IN  [name \in {ParamName(patternParts[i]) : i \in bound} |->
            urlParts[CHOOSE i \in bound :
                        /\ ParamName(patternParts[i]) = name
                        /\ \A j \in bound : ParamName(patternParts[j]) = name => j <= i]]

\* extractParams: a parameter part is bound to the URL part at its index, if
\* there is one; the last of two parts of one name stays
extractParams(cfg, pattern, url) ==
    LET patternParts == trimTrailingSlash(normalizePath(pattern)).segs
        urlParts == trimTrailingSlash(getPathWithoutBase(cfg, url)).segs
        bound == {i \in 1..Len(patternParts) : IsParam(patternParts[i]) /\ i <= Len(urlParts)}
    IN  [name \in {ParamName(patternParts[i]) : i \in bound} |->
            urlParts[CHOOSE i \in bound :
                        /\ ParamName(patternParts[i]) = name
                        /\ \A j \in bound : ParamName(patternParts[j]) = name => j <= i]]

\* extractQueryParams: the last value of a repeated key
extractQueryParams(url) ==
    [key \in {url.query[i][1] : i \in 1..Len(url.query)} |->
        url.query[CHOOSE i \in 1..Len(url.query) :
                     /\ url.query[i][1] = key
                     /\ \A j \in 1..Len(url.query) : url.query[j][1] = key => j <= i][2]]

buildRequestContextCopyingState(cfg, pattern, request) ==
    [params |-> extractParams(cfg, pattern, request.url),
     body |-> parseRequestBody(request),
     queryParams |-> extractQueryParams(request.url),
     headers |-> extractHeaders(request),
     state |-> "copy"]

\* buildRequestContext; state |-> "this.state" is the reference to the
\* mocker's state object, as opposed to a copy of it
buildRequestContext(cfg, pattern, request) ==
    [params |-> extractParams(cfg, pattern, request.url),
     body |-> parseRequestBody(request),
     queryParams |-> extractQueryParams(request.url),
     headers |-> extractHeaders(request),
     state |-> "this.state"]

\* The handlers of the model, those of the test suite's stateful mocks. Each
\* yields the value it returns and the state object as it leaves it.
\*   appendTodo: if (!state.todos) state.todos = [];
\*               todo = { ...context.body, completed: false };
\*               state.todos.push(todo); return todo
\*   readTodos:  return state.todos || []
\*   echoParams: return { ...context.params }
\*   increment:  state.counter = (state.counter || 0) + 1;
\*               return { count: state.counter }
\* and handlers that fail:
\*   throws:          throw new Error('handler failed')
\*   rejects:         return Promise.reject(new Error('handler rejected'))
\*   appendThenThrow: as appendTodo, then throw new Error('handler failed')
Todo(body) ==
    [t |-> "object",
     f |-> Spread(IF body.t = "object" THEN body.f ELSE EmptyObject, [completed |-> FALSE])]

\* The handlers that suspend: each takes context.state, reads what it needs
\* from it, awaits, and writes to the object it took
\*   asyncAppend:    await pause(); then as appendTodo
\*   asyncIncrement: const n = state.count || 0; await pause();
\*                   state.count = n + 1; return { count: n + 1 }
Suspends(handler) == handler \in {"asyncAppend", "asyncIncrement"}

Increments(handler) == handler = "asyncIncrement"

\* What a suspending handler read before it suspended
StartHandler(handler, context, st) ==
    IF Increments(handler) /\ "count" \in DOMAIN st THEN st.count ELSE 0

\* A suspending handler from its await on: what it returns and the state
\* object it holds as it leaves it
ResumeHandler(handler, context, local, st) ==
    IF Increments(handler)
    THEN [ok |-> TRUE, v |-> [t |-> "object", f |-> [count |-> local + 1]],
          state |-> Spread(st, [count |-> local + 1])]
    ELSE LET todos == IF "todos" \in DOMAIN st THEN st.todos ELSE Array(<<>>)
             todo == Todo(context.body)
         IN  [ok |-> TRUE, v |-> todo,
              state |-> Spread(st, [todos |-> Array(Append(todos.items, todo))])]

\* The handlers that push a todo
Appends(handler) == handler \in {"appendTodo", "appendThenThrow", "asyncAppend"}

RunHandler(handler, context, st) ==
    CASE handler = "appendTodo" ->
            LET todos == IF "todos" \in DOMAIN st THEN st.todos ELSE Array(<<>>)
                todo == Todo(context.body)
            IN  [ok |-> TRUE, v |-> todo,
                 state |-> Spread(st, [todos |-> Array(Append(todos.items, todo))])]
      [] handler = "readTodos" ->
            [ok |-> TRUE,
             v |-> IF "todos" \in DOMAIN st THEN st.todos ELSE Array(<<>>),
             state |-> st]
      [] handler = "increment" ->
            LET counter == (IF "counter" \in DOMAIN st THEN st.counter ELSE 0) + 1
            IN  [ok |-> TRUE, v |-> [t |-> "object", f |-> [count |-> counter]],
                 state |-> Spread(st, [counter |-> counter])]
      [] handler = "echoParams" ->
            [ok |-> TRUE, v |-> [t |-> "object", f |-> context.params], state |-> st]
      [] handler = "appendThenThrow" ->
            LET todos == IF "todos" \in DOMAIN st THEN st.todos ELSE Array(<<>>)
                todo == Todo(context.body)
            IN  [ok |-> FALSE, error |-> Error("Error", "handler failed"),
                 state |-> Spread(st, [todos |-> Array(Append(todos.items, todo))])]
      [] handler = "rejects" ->
            [ok |-> FALSE, error |-> Error("Error", "handler rejected"), state |-> st]
      [] handler = "overrides" ->
            [ok |-> TRUE,
             v |-> [t |-> "object",
                    f |-> [data |-> Plain("ok"), status |-> 418,
                           headers |-> "X-Meta" :> "handler"]],
             state |-> st]
      [] handler = "returnsResponse" ->
            [ok |-> TRUE,
             v |-> ResponseWith(203, "dynamic", NewHeaders("X-Meta" :> "handler")),
             state |-> st]
      [] OTHER ->
            [ok |-> FALSE, error |-> Error("Error", "handler failed"), state |-> st]

--------------------------------------------------------------------------
(* Registry *)

MapHas(reg, key) == \E i \in 1..Len(reg) : reg[i].key = key

MapDelete(reg, key) == SelectSeq(reg, LAMBDA entry : entry.key # key)

comparePriority(a, b) == b.priority - a.priority

\* The list left as pushed
sortEndpointsByPriorityUnsorted(list) == list

sortEndpointsByPriority(list) ==
    IF Len(list) > 1 THEN StableSort(list, comparePriority) ELSE list

\* The body shared by mock and mockDynamic: the endpoint gets its priority,
\* is pushed on the list of its key (a new key goes last in the Map) and the
\* list is sorted.
Register(reg, cfg, endpoint, id) ==
    LET key == createEndpointKey(endpoint.method, endpoint.path)
        endpointWithPriority ==
            [endpoint EXCEPT !.priority = OrElse(endpoint.priority, cfg.defaultPriority),
                             !.id = id]
        withKey == IF MapHas(reg, key) THEN reg
                   ELSE Append(reg, [key |-> key, list |-> <<>>])
    IN  [i \in 1..Len(withKey) |->
            IF withKey[i].key = key
            THEN [withKey[i] EXCEPT
                     !.list = sortEndpointsByPriority(Append(@, endpointWithPriority))]
            ELSE withKey[i]]

--------------------------------------------------------------------------
(* The calls of the interceptor *)

Slots == 1..MaxCalls

NoCall == [pc |-> "none"]

InFlight(s) == calls[s].pc \in {"sleep", "delay", "body", "handler"}

Sequential == \A s \in Slots : ~InFlight(s)

FreeSlot == CHOOSE s \in Slots : ~InFlight(s) /\ \A r \in Slots : ~InFlight(r) => s <= r

Settled(call, outcome) == [call EXCEPT !.pc = "done", !.outcome = Some(outcome)]

\* The invocations a call has made, kept with the call: endpoint.response()
\* of a static endpoint whose response is a function, and
\* endpoint.handler(context) of a dynamic one
ResponseCalled(call, endpoint) ==
    IF endpoint.response.src \in {"function", "throws"}
    THEN [call EXCEPT !.invoked = Append(@, [def |-> endpoint.id, context |-> None])]
    ELSE call

HandlerCalled(call, endpoint, context) ==
    [call EXCEPT !.invoked = Append(@, [def |-> endpoint.id, context |-> Some(context)])]

\* The calls suspended inside a handler that holds the state object obj:
\* None for the mocker's current state object, Some(sharers) for an object
\* the mocker has replaced, known by the calls that still hold it
Holders(cs, obj) ==
    {s \in Slots : cs[s].pc = "handler" /\ cs[s].held.obj = obj}

\* this.state = {}: the handlers suspended with the state object the mocker
\* had keep that object, with what it held, and share it among themselves
Detach(cs, content) ==
    LET sharers == Holders(cs, None)
    IN  [s \in Slots |->
            IF s \in sharers
            THEN [cs[s] EXCEPT !.held = [obj |-> Some(sharers), content |-> content]]
            ELSE cs[s]]

--------------------------------------------------------------------------
(* Initial state: the constructor has run *)

InitWith(configs, fetches) ==
    \E c \in configs, f \in fetches :
        /\ endpoints = <<>>
        /\ config = createConfig(c)
        /\ isEnabled = TRUE
        /\ state = EmptyObject
        /\ originalFetch = f
        /\ globalFetch = "intercept"
        /\ calls = [s \in Slots |-> NoCall]
        /\ nextId = 1
        /\ appended = <<>>
        /\ construction = Some([kind |-> "instance"])
        /\ mockers = <<>>

--------------------------------------------------------------------------
(* Operations *)

\* typeof globalThis.fetch === 'function'
IsFunction(slot) == slot \in {"fetch", "polyfill", "stub", "intercept"}

\* The fields of an instance that was not constructed
NoInstance ==
    /\ endpoints = <<>>
    /\ config = EmptyObject
    /\ isEnabled = FALSE
    /\ state = EmptyObject
    /\ originalFetch = "undefined"

\* `new` returned an instance
Constructed == construction = Some([kind |-> "instance"])

constructorWithoutCheck(c) ==
    /\ ~Constructed
    /\ endpoints' = <<>>
    /\ config' = createConfig(c)
    /\ isEnabled' = TRUE
    /\ state' = EmptyObject
    /\ originalFetch' = globalFetch
    /\ globalFetch' = "intercept"
    /\ construction' = Some([kind |-> "instance"])
    /\ UNCHANGED <<calls, nextId, appended, mockers>>

\* new ApiMocker(c): throws, before any field is assigned, when the global
\* slot holds no function; otherwise the fields are initialised, the slot's
\* content is saved and the interceptor is put in the slot.
constructor(c) ==
    /\ ~Constructed
    /\ IF ~IsFunction(globalFetch)
       THEN /\ construction' =
                  Some([kind |-> "failure",
                        error |-> Error("Error",
                                        "ApiMocker requires a global fetch implementation. Please provide a fetch polyfill before creating an ApiMocker instance.")])
            /\ UNCHANGED <<endpoints, config, isEnabled, state, originalFetch, mockers, globalFetch>>
       ELSE /\ endpoints' = <<>>
            /\ config' = createConfig(c)
            /\ isEnabled' = TRUE
            /\ state' = EmptyObject
            /\ originalFetch' = globalFetch
            /\ globalFetch' = "intercept"
            /\ construction' = Some([kind |-> "instance"])
    /\ UNCHANGED <<calls, nextId, appended, mockers>>

mock(endpoint) ==
    /\ nextId <= MaxRegs
    /\ endpoint.kind = "static"
    /\ endpoints' = Register(endpoints, config, endpoint, nextId)
    /\ nextId' = nextId + 1
    /\ UNCHANGED <<config, isEnabled, state, originalFetch, mockers, construction, globalFetch, calls, appended>>

mockDynamic(endpoint) ==
    /\ nextId <= MaxRegs
    /\ endpoint.kind = "dynamic"
    /\ endpoints' = Register(endpoints, config, endpoint, nextId)
    /\ nextId' = nextId + 1
    /\ UNCHANGED <<config, isEnabled, state, originalFetch, mockers, construction, globalFetch, calls, appended>>

enable ==
    /\ isEnabled' = TRUE
    /\ UNCHANGED <<endpoints, config, state, originalFetch, mockers, construction, globalFetch, calls, nextId, appended>>

disable ==
    /\ isEnabled' = FALSE
    /\ UNCHANGED <<endpoints, config, state, originalFetch, mockers, construction, globalFetch, calls, nextId, appended>>

clearKeepingState ==
    /\ endpoints' = <<>>
    /\ UNCHANGED <<state, appended>>
    /\ UNCHANGED <<config, isEnabled, originalFetch, mockers, construction, globalFetch, calls, nextId>>

clear ==
    /\ endpoints' = <<>>
    /\ state' = EmptyObject
    /\ appended' = <<>>
    /\ calls' = Detach(calls, state)
    /\ UNCHANGED <<config, isEnabled, originalFetch, mockers, construction, globalFetch, nextId>>

removeByMatching(method, path) ==
    /\ endpoints' =
          SelectSeq(endpoints,
                    LAMBDA entry : ~(entry.key[1] = method
                                     /\ matchesPath(config, entry.key[2], Url(TRUE, path, <<>>))))
    /\ UNCHANGED <<config, isEnabled, state, originalFetch, mockers, construction, globalFetch, calls, nextId, appended>>

remove(method, path) ==
    /\ endpoints' = MapDelete(endpoints, createEndpointKey(method, path))
    /\ UNCHANGED <<config, isEnabled, state, originalFetch, mockers, construction, globalFetch, calls, nextId, appended>>

getState == Spread(EmptyObject, state)

setState(key, value) ==
    /\ state' = Spread(state, key :> value)
    /\ UNCHANGED <<endpoints, config, isEnabled, originalFetch, mockers, construction, globalFetch, calls, nextId, appended>>

clearState ==
    /\ state' = EmptyObject
    /\ appended' = <<>>
    /\ calls' = Detach(calls, state)
    /\ UNCHANGED <<endpoints, config, isEnabled, originalFetch, mockers, construction, globalFetch, nextId>>

restoreDisabling ==
    /\ globalFetch' = originalFetch
    /\ isEnabled' = FALSE
    /\ UNCHANGED <<endpoints, config, state, originalFetch, mockers, construction, calls, nextId, appended>>

restoreOnlyWhenInstalled ==
    /\ globalFetch' = IF globalFetch = "intercept" THEN originalFetch ELSE globalFetch
    /\ UNCHANGED <<endpoints, config, isEnabled, state, originalFetch, mockers, construction, calls, nextId, appended>>

restore ==
    /\ globalFetch' = originalFetch
    /\ UNCHANGED <<endpoints, config, isEnabled, state, originalFetch, mockers, construction, calls, nextId, appended>>

\* updateConfig that also moves the registered definitions standing at the
\* old default priority to the new one
updateConfigRerankingEndpoints(newConfig) ==
    /\ config' =
          [baseUrl |->
              IF newConfig.baseUrl = None THEN config.baseUrl
              ELSE IF newConfig.baseUrl[1] = None THEN None
              ELSE normalizeBaseUrl(newConfig.baseUrl[1]),
           globalDelay |-> OrElse(newConfig.globalDelay, config.globalDelay),
           globalHeaders |-> Spread(config.globalHeaders,
                                    OrElse(newConfig.globalHeaders, EmptyObject)),
           defaultPriority |-> OrElse(newConfig.defaultPriority, config.defaultPriority)]
    /\ endpoints' =
          [i \in 1..Len(endpoints) |->
              [endpoints[i] EXCEPT !.list =
                  sortEndpointsByPriority(
                      [j \in 1..Len(@) |->
                          IF @[j].priority = config.defaultPriority
                          THEN [@[j] EXCEPT !.priority =
                                   OrElse(newConfig.defaultPriority, config.defaultPriority)]
                          ELSE @[j]])]]
    /\ UNCHANGED <<isEnabled, state, originalFetch, mockers, construction, globalFetch, calls, nextId, appended>>

\* newConfig is partial: each field None when the key is absent; its baseUrl,
\* when present, is None for '' and Some(path) otherwise.
updateConfig(newConfig) ==
    /\ config' =
          [baseUrl |->
              IF newConfig.baseUrl = None THEN config.baseUrl
              ELSE IF newConfig.baseUrl[1] = None THEN None
              ELSE normalizeBaseUrl(newConfig.baseUrl[1]),
           globalDelay |-> OrElse(newConfig.globalDelay, config.globalDelay),
           globalHeaders |-> Spread(config.globalHeaders,
                                    OrElse(newConfig.globalHeaders, EmptyObject)),
           defaultPriority |-> OrElse(newConfig.defaultPriority, config.defaultPriority)]
    /\ UNCHANGED <<endpoints, isEnabled, state, originalFetch, mockers, construction, globalFetch, calls, nextId, appended>>

\* Code outside the mocker assigns globalThis.fetch.
assignGlobalFetch(f) ==
    /\ globalFetch' = f
    /\ UNCHANGED <<endpoints, config, isEnabled, state, originalFetch, mockers, construction, calls, nextId, appended>>

--------------------------------------------------------------------------
(* The interceptor *)

\* What the interceptor saw when it looked for a match: kept with the call,
\* to state what the call's result is measured against.
Seen ==
    [reg |-> endpoints, config |-> config, enabled |-> isEnabled,
     originalFetch |-> originalFetch]

\* intercept(input, init), up to its first suspension: a disabled mocker and
\* a request no endpoint applies to go to the saved transport; a matched one
\* enters createMockResponse and suspends in applyDelay.
EndpointDelayTruthy(endpoint, cfg) ==
    IF endpoint.delay # None /\ endpoint.delay[1] # 0 THEN endpoint.delay[1]
    ELSE cfg.globalDelay

\* endpoint.delay ?? this.config.globalDelay ?? 0, the configuration's
\* globalDelay being 0 when none was given
EndpointDelay(endpoint, cfg) == OrElse(endpoint.delay, cfg.globalDelay)

\* No timer whatever the delay
applyDelayWithoutTimer(call, delay) == [call EXCEPT !.pc = "delay", !.delay = delay]

\* applyDelay, from the call: a positive delay arms a timer of that many
\* milliseconds and suspends the call on it; any other delay goes on
\* without a timer.
applyDelay(call, delay) ==
    IF delay > 0
    THEN [call EXCEPT !.pc = "sleep", !.delay = delay, !.timer = Some(delay)]
    ELSE [call EXCEPT !.pc = "delay", !.delay = delay]

\* A timer whose callback does not resolve the promise: the call stays
\* suspended
sleepNotResolving(s) ==
    /\ calls[s].pc = "sleep"
    /\ UNCHANGED vars

\* sleep: the timer fires, its milliseconds elapsed, and the call goes on
sleep(s) ==
    /\ calls[s].pc = "sleep"
    /\ calls' = [calls EXCEPT ![s] = [@ EXCEPT !.pc = "delay", !.slept = calls[s].timer[1]]]
    /\ UNCHANGED <<endpoints, config, isEnabled, state, originalFetch, mockers, construction, globalFetch,
                   nextId, appended>>

\* state.count || 0, and the calls under way that will write state.count
Counted == IF "count" \in DOMAIN state THEN state.count ELSE 0

CountsDue ==
    Cardinality({s \in Slots : /\ InFlight(s)
                               /\ calls[s].endpoint # None
                               /\ Increments(calls[s].endpoint[1].handler)})

intercept(input, init) ==
    /\ globalFetch = "intercept"
    /\ \E s \in Slots : ~InFlight(s)
    /\ LET absoluteUrl == toAbsoluteUrl(config, input.url)
           method == ToUpperCase(IF init = None THEN "GET" ELSE OrElse(init[1].method, "GET"))
           request == NewRequest(absoluteUrl, init)
           call == [pc |-> "delay", input |-> input, init |-> init, method |-> method,
                    request |-> request, endpoint |-> None, delay |-> 0, timer |-> None,
                    slept |-> 0, abortedAt |-> None, context |-> None,
                    held |-> [obj |-> None, content |-> EmptyObject], local |-> 0,
                    outcome |-> None, invoked |-> <<>>, seen |-> Seen]
           found == findMatchingEndpoint(endpoints, config, method, absoluteUrl, request)
       IN  /\ (found # None /\ Appends(found[1].handler)) => Len(appended) < MaxTodos
           /\ (found # None /\ Increments(found[1].handler)) => Counted + CountsDue < MaxCount
           /\ calls' = [calls EXCEPT ![FreeSlot] =
                IF ~isEnabled
                THEN Settled(call, PassedThrough(originalFetch, input, init))
                ELSE IF PredicateThrows(endpoints, method)
                THEN Settled(call, Rejected(Error("Error", "match failed"), 0))
                ELSE IF found = None
                THEN Settled(call, PassedThrough(originalFetch, input, init))
                ELSE applyDelay([call EXCEPT !.endpoint = found],
                                EndpointDelay(found[1], config))]
    /\ UNCHANGED <<endpoints, config, isEnabled, state, originalFetch, mockers, construction, globalFetch, nextId, appended>>

\* createMockResponse after applyDelay: a network-error label, unless it is
\* the empty string, which the test `if (endpoint.networkError)` takes for no
\* label, fails the call;
\* a static endpoint is resolved and answered; a dynamic one builds its
\* context and suspends reading the request body.
afterDelayHandlerFirst(s) ==
    /\ calls[s].pc = "delay"
    /\ LET call == calls[s]
           endpoint == call.endpoint[1]
           resolved == ResolveStatic(endpoint)
       IN  calls' = [calls EXCEPT ![s] =
                IF endpoint.kind = "dynamic"
                THEN [call EXCEPT !.pc = "body",
                                  !.context = Some(buildRequestContext(config, endpoint.path,
                                                                       call.request))]
                ELSE IF endpoint.networkError # None /\ endpoint.networkError[1] # ""
                THEN Settled(call, Rejected(simulateNetworkError(endpoint.networkError[1]),
                                            endpoint.id))
                ELSE IF resolved.ok
                THEN Settled(ResponseCalled(call, endpoint),
                             Respond(config, endpoint, resolved.v))
                ELSE Settled(ResponseCalled(call, endpoint),
                             Rejected(resolved.error, endpoint.id))]
    /\ UNCHANGED <<endpoints, config, isEnabled, state, originalFetch, mockers, construction, globalFetch, nextId, appended>>

\* The flag tested again after the delay
afterDelayRecheckingEnabled(s) ==
    /\ calls[s].pc = "delay"
    /\ LET call == calls[s]
           endpoint == call.endpoint[1]
           resolved == ResolveStatic(endpoint)
       IN  calls' = [calls EXCEPT ![s] =
                IF ~isEnabled
                THEN Settled(call, PassedThrough(originalFetch, call.input, call.init))
                ELSE IF endpoint.networkError # None /\ endpoint.networkError[1] # ""
                THEN Settled(call, Rejected(simulateNetworkError(endpoint.networkError[1]),
                                            endpoint.id))
                ELSE IF endpoint.kind = "dynamic"
                THEN [call EXCEPT !.pc = "body",
                                  !.context = Some(buildRequestContext(config, endpoint.path,
                                                                       call.request))]
                ELSE IF resolved.ok
                THEN Settled(ResponseCalled(call, endpoint),
                             Respond(config, endpoint, resolved.v))
                ELSE Settled(ResponseCalled(call, endpoint),
                             Rejected(resolved.error, endpoint.id))]
    /\ UNCHANGED <<endpoints, config, isEnabled, state, originalFetch, mockers, construction, globalFetch, nextId, appended>>

afterDelay(s) ==
    /\ calls[s].pc = "delay"
    /\ LET call == calls[s]
           endpoint == call.endpoint[1]
           resolved == ResolveStatic(endpoint)
       IN  calls' = [calls EXCEPT ![s] =
                IF endpoint.networkError # None /\ endpoint.networkError[1] # ""
                THEN Settled(call, Rejected(simulateNetworkError(endpoint.networkError[1]),
                                            endpoint.id))
                ELSE IF endpoint.kind = "dynamic"
                THEN [call EXCEPT !.pc = "body",
                                  !.context = Some(buildRequestContext(config, endpoint.path,
                                                                       call.request))]
                ELSE IF resolved.ok
                THEN Settled(ResponseCalled(call, endpoint),
                             Respond(config, endpoint, resolved.v))
                ELSE Settled(ResponseCalled(call, endpoint),
                             Rejected(resolved.error, endpoint.id))]
    /\ UNCHANGED <<endpoints, config, isEnabled, state, originalFetch, mockers, construction, globalFetch, nextId, appended>>

\* The caller aborts the signal it gave in init, the call being suspended.
\* Nothing in the mocker listens to the signal; the call remembers where it
\* was.
abort(s) ==
    /\ InFlight(s)
    /\ calls[s].init # None
    /\ "signal" \in DOMAIN calls[s].init[1]
    /\ calls[s].abortedAt = None
    /\ calls' = [calls EXCEPT ![s].abortedAt = Some(calls[s].pc)]
    /\ UNCHANGED <<endpoints, config, isEnabled, state, originalFetch, mockers, construction, globalFetch,
                   nextId, appended>>

\* What parseRequestBody leaves in the context: the parsed body; for a
\* request whose signal was aborted the platform may fail the read, and the
\* catch of parseRequestBody then gives undefined.
ContextsRead(call) ==
    {call.context[1]}
        \cup (IF call.abortedAt # None
              THEN {[call.context[1] EXCEPT !.body = Undefined]}
              ELSE {})

afterBodySerialized(s) ==
    /\ \A r \in Slots : calls[r].pc # "handler"
    /\ calls[s].pc = "body"
    /\ \E context \in ContextsRead(calls[s]) :
       LET call == calls[s]
           endpoint == call.endpoint[1]
           ran == RunHandler(endpoint.handler, context, state)
       IN  IF Suspends(endpoint.handler)
           THEN /\ calls' = [calls EXCEPT ![s] =
                      [HandlerCalled(call, endpoint, context)
                                   EXCEPT !.pc = "handler",
                                   !.context = Some(context),
                                   !.local = StartHandler(endpoint.handler, context, state)]]
                /\ UNCHANGED <<state, appended>>
           ELSE /\ Appends(endpoint.handler) => Len(appended) < MaxTodos
                /\ state' = IF context.state = "this.state" THEN ran.state ELSE state
                /\ appended' = IF Appends(endpoint.handler)
                               THEN Append(appended, Todo(context.body))
                               ELSE appended
                /\ calls' = [calls EXCEPT ![s] =
                     IF ran.ok
                     THEN Settled(HandlerCalled(call, endpoint, context),
                                  Respond(config, endpoint, ran.v))
                     ELSE Settled(HandlerCalled(call, endpoint, context),
                                  Rejected(ran.error, endpoint.id))]
    /\ UNCHANGED <<endpoints, config, isEnabled, originalFetch, mockers, construction, globalFetch, nextId>>

\* buildRequestContext after parseRequestBody, then the handler, run to its
\* end or to its await, and the response built from what it returned.
afterBody(s) ==
    /\ calls[s].pc = "body"
    /\ \E context \in ContextsRead(calls[s]) :
       LET call == calls[s]
           endpoint == call.endpoint[1]
           ran == RunHandler(endpoint.handler, context, state)
       IN  IF Suspends(endpoint.handler)
           THEN /\ calls' = [calls EXCEPT ![s] =
                      [HandlerCalled(call, endpoint, context)
                                   EXCEPT !.pc = "handler",
                                   !.context = Some(context),
                                   !.local = StartHandler(endpoint.handler, context, state)]]
                /\ UNCHANGED <<state, appended>>
           ELSE /\ Appends(endpoint.handler) => Len(appended) < MaxTodos
                /\ state' = IF context.state = "this.state" THEN ran.state ELSE state
                /\ appended' = IF Appends(endpoint.handler)
                               THEN Append(appended, Todo(context.body))
                               ELSE appended
                /\ calls' = [calls EXCEPT ![s] =
                     IF ran.ok
                     THEN Settled(HandlerCalled(call, endpoint, context),
                                  Respond(config, endpoint, ran.v))
                     ELSE Settled(HandlerCalled(call, endpoint, context),
                                  Rejected(ran.error, endpoint.id))]
    /\ UNCHANGED <<endpoints, config, isEnabled, originalFetch, mockers, construction, globalFetch, nextId>>

\* The handler resumes from its await, writes to the state object it holds
\* and returns; the response is built from what it returned. The object is
\* the mocker's state unless the mocker has replaced it since; then the
\* write is seen only by the handlers that hold the same object.
afterHandler(s) ==
    /\ calls[s].pc = "handler"
    /\ LET call == calls[s]
           endpoint == call.endpoint[1]
           live == call.held.obj = None
           ran == ResumeHandler(endpoint.handler, call.context[1], call.local,
                                IF live THEN state ELSE call.held.content)
           settled == Settled(call, Respond(config, endpoint, ran.v))
       IN  /\ (live /\ Appends(endpoint.handler)) => Len(appended) < MaxTodos
           /\ state' = IF live THEN ran.state ELSE state
           /\ appended' = IF live /\ Appends(endpoint.handler)
                          THEN Append(appended, Todo(call.context[1].body))
                          ELSE appended
           /\ calls' = [r \in Slots |->
                          IF r = s THEN settled
                          ELSE IF ~live /\ r \in Holders(calls, call.held.obj)
                          THEN [calls[r] EXCEPT !.held.content = ran.state]
                          ELSE calls[r]]
    /\ UNCHANGED <<endpoints, config, isEnabled, originalFetch, mockers, construction, globalFetch, nextId>>

--------------------------------------------------------------------------
(* Inputs *)

UsersMe == Path(<<"users", "me">>, TRUE, FALSE)
UsersId == Path(<<"users", ":id">>, TRUE, FALSE)
UsersUid == Path(<<"users", ":uid">>, TRUE, FALSE)
Users5 == Path(<<"users", "5">>, TRUE, FALSE)
Todos == Path(<<"todos">>, TRUE, FALSE)
UsersBase == Path(<<"users">>, TRUE, TRUE)

\* An endpoint as given to mock / mockDynamic, every option absent
Endpoint(kind, method, path) ==
    [id |-> 0, kind |-> kind, method |-> method, path |-> path, priority |-> None,
     status |-> None, delay |-> None, headers |-> None, queryParams |-> None,
     requestHeaders |-> None, match |-> None, networkError |-> None,
     response |-> [src |-> "value", v |-> Undefined], handler |-> ""]

Static(method, path, src, v) ==
    [Endpoint("static", method, path) EXCEPT !.response = [src |-> src, v |-> v]]

Dynamic(method, path, handler) ==
    [Endpoint("dynamic", method, path) EXCEPT !.handler = handler]

Config(baseUrl) ==
    [baseUrl |-> baseUrl, globalDelay |-> None, globalHeaders |-> None, defaultPriority |-> None]

\* fetch(url) and fetch(url, { method, body })
Input(path) == [kind |-> "string", url |-> Url(FALSE, path, <<>>)]
RequestInit(method, body) == Some([method |-> method, headers |-> EmptyObject, body |-> body])

\* fetch(url, { headers }) and a URL with a query string
RequestHeaders(headers) == Some([method |-> None, headers |-> headers, body |-> None])
InputQuery(path, query) == [kind |-> "string", url |-> Url(FALSE, path, query)]

--------------------------------------------------------------------------
(* Specification of the ranker: static endpoints over overlapping patterns, *)
(* two of them of equal specificity, with two priorities, registered and    *)
(* removed in any order, and requests awaited one after the other.          *)

RankPaths == {UsersMe, UsersId, UsersUid}

RankEndpoints ==
    {[Static("GET", p, "value", Plain("user")) EXCEPT !.priority = pr] :
        p \in RankPaths, pr \in {None, Some(10)}}

InitRank == InitWith({Config(None)}, {"fetch"})

NextRank ==
    \/ \E e \in RankEndpoints : mock(e)
    \/ \E p \in RankPaths : remove("GET", p)
    \/ clear
    \/ \E p \in {UsersMe, Users5} : Sequential /\ intercept(Input(p), None)
    \/ \E s \in Slots : afterDelay(s)

SpecRank == InitRank /\ [][NextRank]_vars

--------------------------------------------------------------------------
(* Claims about the ranker *)

Range(seq) == {seq[i] : i \in 1..Len(seq)}

\* The registered endpoints that applied to the request of a call, when the
\* interceptor looked for a match
Applicable(c) ==
    {e \in Range(Flatten(c.seen.reg)) :
        matchesEndpoint(c.seen.config, e, c.method, c.request.url, c.request)}

Matched(c) == c.pc # "none" /\ c.seen.enabled

\* C1: when mocking is enabled and two or more registered definitions apply to
\* a request, the call is answered from a definition whose priority is the
\* highest among the applicable ones, in whatever order they were registered.
C1_HighestPriorityWins ==
    \A s \in Slots :
        LET c == calls[s]
        IN  (Matched(c) /\ Cardinality(Applicable(c)) >= 2) =>
                /\ c.endpoint # None
                /\ c.endpoint[1] \in Applicable(c)
                /\ \A e \in Applicable(c) : e.priority <= c.endpoint[1].priority
                /\ c.pc = "done" =>
                      /\ c.outcome[1].kind = "response"
                      /\ c.outcome[1].def = c.endpoint[1].id

\* A call answered from the higher of two priorities, the lower one having
\* been registered first
C1_Witness ==
    \E s \in Slots :
        LET c == calls[s]
        IN  /\ Matched(c)
            /\ c.pc = "done"
            /\ c.outcome[1].kind = "response"
            /\ \E e \in Applicable(c) :
                  /\ e.priority < c.endpoint[1].priority
                  /\ e.id < c.endpoint[1].id

\* 10 for each literal segment, 1 for each :param segment
ClaimedSpecificity(path) ==
    LET segs == path.segs
    IN  10 * Cardinality({i \in 1..Len(segs) : ~IsParam(segs[i])})
          + Cardinality({i \in 1..Len(segs) : IsParam(segs[i])})

\* C2: among the applicable definitions of the winner's priority, the winner
\* is one of the highest specificity (10 per literal segment, 1 per :param
\* segment); for a request to /users/me, /users/me (20) beats /users/:id (11).
C2_MostSpecificWinsAmongEqualPriority ==
    \A s \in Slots :
        LET c == calls[s]
        IN  (Matched(c) /\ c.endpoint # None) =>
                /\ \A e \in Applicable(c) :
                      e.priority = c.endpoint[1].priority =>
                          ClaimedSpecificity(e.path) <= ClaimedSpecificity(c.endpoint[1].path)
                /\ (/\ c.request.url.path = UsersMe
                    /\ \E e \in Applicable(c) :
                          e.path = UsersMe /\ e.priority = c.endpoint[1].priority)
                   => /\ c.endpoint[1].path = UsersMe
                      /\ ClaimedSpecificity(c.endpoint[1].path) = 20
                      /\ calculateSpecificity(UsersId) = 11

\* /users/me wins a request to /users/me over an equal-priority /users/:id
\* that was registered before it
C2_Witness ==
    \E s \in Slots :
        LET c == calls[s]
        IN  /\ Matched(c)
            /\ c.pc = "done"
            /\ c.outcome[1].kind = "response"
            /\ c.endpoint[1].path = UsersMe
            /\ \E e \in Applicable(c) :
                  /\ e.path = UsersId
                  /\ e.priority = c.endpoint[1].priority
                  /\ e.id < c.endpoint[1].id

\* C10: when several applicable definitions tie on priority and specificity,
\* the winner is the one registered earliest among them, also when they are
\* stored under different registry keys.
C10_EarliestRegisteredWinsTies ==
    \A s \in Slots :
        LET c == calls[s]
        IN  (Matched(c) /\ c.endpoint # None) =>
                \A e \in Applicable(c) :
                    (/\ e.priority = c.endpoint[1].priority
                     /\ calculateSpecificity(e.path) = calculateSpecificity(c.endpoint[1].path))
                    => c.endpoint[1].id <= e.id

--------------------------------------------------------------------------
(* Specification of the mocker's life cycle: a few endpoints registered,   *)
(* removed and cleared, mocking switched off and on, the state set and     *)
(* cleared, and requests awaited one after the other.                      *)

LifeEndpoints ==
    {Static("GET", UsersMe, "value", Plain("me")),
     [Static("GET", UsersId, "value", Plain("user")) EXCEPT !.status = Some(201)],
     Dynamic("GET", Todos, "readTodos")}

LifeRequests ==
    {<<Input(UsersMe), None>>,
     <<Input(Users5), None>>,
     <<Input(Todos), RequestInit(Some("GET"), None)>>,
     <<Input(UsersMe), RequestInit(Some("POST"), Some(Stringify(Plain("body"))))>>}

RemovePaths == {UsersMe, UsersId, Users5}

Init == InitWith({Config(None)}, {"fetch"})

Next ==
    \/ \E e \in LifeEndpoints : mock(e)
    \/ \E e \in LifeEndpoints : mockDynamic(e)
    \/ enable
    \/ disable
    \/ clear
    \/ \E p \in RemovePaths : remove("GET", p)
    \/ setState("testKey", "testValue")
    \/ clearState
    \/ \E r \in LifeRequests : Sequential /\ intercept(r[1], r[2])
    \/ \E s \in Slots : afterDelay(s)
    \/ \E s \in Slots : afterBody(s)

Spec == Init /\ [][Next]_vars

--------------------------------------------------------------------------
(* Claims about the life cycle *)

\* C4: a request issued while the mocker is disabled goes to the saved
\* transport with exactly its (input, init), no endpoint being looked up and
\* no handler run; disable() and enable() set the flag and leave the registry
\* and the state as they are, so that a request resolves after enable() as
\* it did before disable().
C4_DisabledPassesThrough ==
    /\ \A s \in Slots :
          LET c == calls[s]
          IN  (c.pc # "none" /\ ~c.seen.enabled) =>
                  /\ c.pc = "done"
                  /\ c.outcome = Some(PassedThrough(originalFetch, c.input, c.init))
                  /\ c.outcome[1].init = c.init
                  /\ c.endpoint = None
                  /\ c.context = None
    /\ ~ENABLED (disable /\ ~(~isEnabled' /\ endpoints' = endpoints /\ state' = state
                              /\ config' = config))
    /\ ~ENABLED (enable /\ ~(isEnabled' /\ endpoints' = endpoints /\ state' = state
                             /\ config' = config))

\* A request that a registered endpoint applies to, made with options while
\* the mocker was disabled, went to the saved transport
C4_Witness ==
    \E s \in Slots :
        LET c == calls[s]
        IN  /\ c.pc = "done"
            /\ ~c.seen.enabled
            /\ c.init # None
            /\ Applicable(c) # {}
            /\ c.outcome[1].kind = "real"

\* C5: clear() leaves the registry without keys and the state empty in one
\* step; a request made while the registry is empty goes to the saved
\* transport; a second clear() changes nothing.
C5_ClearEmptiesRegistryAndState ==
    /\ ~ENABLED (clear /\ ~(endpoints' = <<>> /\ getState' = EmptyObject
                            /\ config' = config /\ isEnabled' = isEnabled))
    /\ (endpoints = <<>> /\ state = EmptyObject) => ~ENABLED (clear /\ ~UNCHANGED vars)
    /\ \A s \in Slots :
          LET c == calls[s]
          IN  (Matched(c) /\ c.seen.reg = <<>>) =>
                  /\ c.pc = "done"
                  /\ c.outcome = Some(PassedThrough(originalFetch, c.input, c.init))

\* After registrations, the registry and the state are empty and a request
\* made then went to the saved transport
C5_Witness ==
    /\ nextId > 2
    /\ endpoints = <<>>
    /\ getState = EmptyObject
    /\ \E s \in Slots :
          LET c == calls[s]
          IN  /\ Matched(c)
              /\ c.seen.reg = <<>>
              /\ c.pc = "done"
              /\ c.outcome[1].kind = "real"

\* C8: remove(method, path) deletes the list stored under the key of exactly
\* that method and path string and nothing else: the other keys, the state,
\* the configuration and the enabled flag stay; /users/5 does not remove
\* what is registered as /users/:id; an absent key is a no-op.
C8_RemoveDeletesExactlyOneKey ==
    \A p \in RemovePaths :
        ~ENABLED (remove("GET", p)
                  /\ ~(/\ endpoints' = SelectSeq(endpoints,
                                                 LAMBDA entry : entry.key # <<"GET", p>>)
                       /\ state' = state
                       /\ config' = config
                       /\ isEnabled' = isEnabled))

\* /users/me was removed (a call saw it registered, after /users/:id) and
\* /users/:id, registered before it, is still there
C8_Witness ==
    \E s \in Slots :
        LET c == calls[s]
        IN  /\ c.pc # "none"
            /\ \E e \in Range(Flatten(c.seen.reg)), d \in Range(Flatten(endpoints)) :
                  /\ e.path = UsersMe
                  /\ d.path = UsersId
                  /\ d.id < e.id
            /\ \A d \in Range(Flatten(endpoints)) : d.path # UsersMe

--------------------------------------------------------------------------
(* Specification of static responses: static endpoints whose response is a *)
(* payload, a response descriptor, a Response or a function that throws,   *)
(* with and without a status, under a configuration with and without a     *)
(* base path.                                                              *)

StaticEndpoints ==
    {Static("GET", UsersMe, "value", Plain("me")),
     [Static("GET", UsersId, "value", Plain("user")) EXCEPT !.status = Some(201)],
     [Static("POST", UsersMe, "function", Plain("created")) EXCEPT !.status = Some(201)],
     Static("GET", UsersMe, "function", Descriptor(Plain("meta"), 202)),
     Static("GET", Users5, "function", ResponseObject(203, "custom")),
     Static("POST", Users5, "throws", Undefined)}

StaticRequests ==
    {<<Input(p), i>> :
        p \in {UsersMe, UsersId, Users5},
        i \in {None, RequestInit(Some("post"), None)}}

BaseUrls == {None, Some(UsersBase)}

InitStatic == InitWith({Config(b) : b \in BaseUrls}, {"fetch"})

NextStatic ==
    \/ \E e \in StaticEndpoints : mock(e)
    \/ \E r \in StaticRequests : Sequential /\ intercept(r[1], r[2])
    \/ \E s \in Slots : afterDelay(s)

SpecStatic == InitStatic /\ [][NextStatic]_vars

\* The endpoints that were registered when the interceptor handled the call
RegisteredFor(c) == IF c.pc = "none" THEN {} ELSE Range(Flatten(c.seen.reg))

\* d is registered as a static endpoint without network error, and the call
\* asks for d's method and d's path string; nothing else registered applies.
ExactRequest(c, d) ==
    /\ Matched(c)
    /\ d.kind = "static"
    /\ d.networkError = None
    /\ c.method = d.method
    /\ c.input.url.path = d.path
    /\ Applicable(c) \subseteq {d}

Answered(c, d, body, status) ==
    /\ c.endpoint = Some(d)
    /\ c.pc = "done" =>
          /\ c.outcome[1].kind = "response"
          /\ c.outcome[1].def = d.id
          /\ c.outcome[1].response.body = body
          /\ c.outcome[1].response.status = status

PlainPayload(d) ==
    /\ d.response.src # "throws"
    /\ d.response.v.t = "object"
    /\ DOMAIN d.response.v.f \cap {"status", "headers"} = {}

BasePathPrefixes(cfg, d) ==
    /\ getBasePath(cfg) # <<>>
    /\ StartsWith(normalizePath(d.path).segs, getBasePath(cfg))

--------------------------------------------------------------------------
(* Specification of stateful handlers: the test suite's todo handlers,     *)
(* POST appending the request's body to state.todos and GET reading it,    *)
(* with the state set and cleared from outside, and requests awaited one   *)
(* after the other.                                                        *)

TodoBody(title) == [t |-> "object", f |-> [title |-> title]]

StateEndpoints ==
    {Dynamic("POST", Todos, "appendTodo"),
     Dynamic("GET", Todos, "readTodos")}

StateRequests ==
    {<<Input(Todos), None>>,
     <<Input(Todos), RequestInit(Some("POST"), Some(Stringify(TodoBody("First"))))>>,
     <<Input(Todos), RequestInit(Some("POST"), Some(Stringify(TodoBody("Second"))))>>}

InitState == InitWith({Config(None)}, {"fetch"})

NextState ==
    \/ \E e \in StateEndpoints : mockDynamic(e)
    \/ setState("testKey", "testValue")
    \/ clearState
    \/ clear
    \/ \E r \in StateRequests : Sequential /\ intercept(r[1], r[2])
    \/ \E s \in Slots : afterDelay(s)
    \/ \E s \in Slots : afterBody(s)

SpecState == InitState /\ [][NextState]_vars

\* The handler of the call in slot s is the one reading state.todos
ReadsTodos(s) ==
    /\ calls[s].pc = "body"
    /\ calls[s].endpoint[1].handler = "readTodos"

\* C6: between requests, the todos appended by the handlers of the requests
\* made since the state was last cleared are state.todos, in the order of
\* the requests, and getState() shows them; a handler that reads state.todos
\* then returns exactly them, in that order, and setting another key of the
\* state does not lose them.
C6_HandlersObservePriorWrites ==
    /\ appended # <<>> =>
          /\ "todos" \in DOMAIN getState
          /\ getState.todos = Array(appended)
    /\ \A s \in Slots :
          ~ENABLED (/\ ReadsTodos(s)
                    /\ afterBody(s)
                    /\ ~(/\ calls'[s].pc = "done"
                         /\ calls'[s].outcome[1].kind = "response"
                         /\ calls'[s].outcome[1].response.body
                               = Some(Stringify(Array(appended)))
                         /\ state' = state))
    /\ ~ENABLED (/\ setState("testKey", "testValue")
                 /\ appended # <<>>
                 /\ ~(getState'.todos = Array(appended) /\ getState'.testKey = "testValue"))

\* Two POSTs appended First then Second, another key was set, and a GET then
\* returned both todos in that order, as getState() has them
C6_Witness ==
    /\ appended = <<Todo(TodoBody("First")), Todo(TodoBody("Second"))>>
    /\ "testKey" \in DOMAIN getState
    /\ getState.todos = Array(appended)
    /\ \E s \in Slots :
          /\ calls[s].pc = "done"
          /\ calls[s].endpoint # None
          /\ calls[s].endpoint[1].handler = "readTodos"
          /\ calls[s].outcome[1].kind = "response"
          /\ calls[s].outcome[1].response.body = Some(Stringify(Array(appended)))

--------------------------------------------------------------------------
(* Specification of network errors: endpoints, static and dynamic, that    *)
(* declare each of the labels, one outside the three named ones, one the   *)
(* empty string, and one without a label.                                  *)

Labelled(endpoint, label) == [endpoint EXCEPT !.networkError = Some(label)]

NetEndpoints ==
    {Labelled(Static("GET", UsersMe, "value", Plain("me")), "timeout"),
     Labelled(Static("GET", Users5, "value", Plain("user")), "connection_refused"),
     Labelled(Static("POST", UsersMe, "function", Plain("created")), "abort"),
     Labelled(Dynamic("GET", Todos, "readTodos"), "dns"),
     Dynamic("GET", Todos, "readTodos"),
     Labelled(Static("GET", UsersId, "value", Plain("user")), "")}

NetRequests ==
    {<<Input(UsersMe), None>>,
     <<Input(Users5), None>>,
     <<Input(UsersMe), RequestInit(Some("POST"), None)>>,
     <<Input(Todos), None>>}

InitNet == InitWith({Config(None)}, {"fetch"})

NextNet ==
    \/ \E e \in NetEndpoints : mock(e)
    \/ \E e \in NetEndpoints : mockDynamic(e)
    \/ \E r \in NetRequests : Sequential /\ intercept(r[1], r[2])
    \/ \E s \in Slots : afterDelay(s)
    \/ \E s \in Slots : afterBody(s)

SpecNet == InitNet /\ [][NextNet]_vars

\* The call's winner declares a label (a non-empty string)
LabelledWinner(c) ==
    /\ Matched(c)
    /\ c.endpoint # None
    /\ c.endpoint[1].networkError # None
    /\ c.endpoint[1].networkError[1] # ""

\* C7: a call whose winner declares a label never gets a response, its
\* handler is never reached, and it fails with the failure of its label:
\* the timeout and the connection-refused TypeErrors, which differ, an
\* AbortError for abort, and the generic TypeError for any other label.
C7_NetworkErrorByLabel ==
    \A s \in Slots :
        LET c == calls[s]
            label == c.endpoint[1].networkError[1]
        IN  LabelledWinner(c) =>
                /\ c.pc \in {"delay", "done"}
                /\ c.context = None
                /\ c.pc = "done" =>
                      /\ c.outcome[1].kind = "failure"
                      /\ c.outcome[1].def = c.endpoint[1].id
                      /\ label = "timeout" =>
                            c.outcome[1].error
                               = [name |-> "TypeError",
                                  message |-> "Network request failed: timeout"]
                      /\ label = "connection_refused" =>
                            c.outcome[1].error
                               = [name |-> "TypeError",
                                  message |-> "Network request failed: connection refused"]
                      /\ label = "abort" =>
                            /\ c.outcome[1].error.name = "AbortError"
                            /\ c.outcome[1].error.message = "The operation was aborted"
                      /\ label \notin {"timeout", "connection_refused", "abort"} =>
                            c.outcome[1].error
                               = [name |-> "TypeError", message |-> "Network request failed"]

\* A request won by the endpoint labelled timeout failed, although an
\* unlabelled endpoint was registered too
C7_Witness ==
    \E s \in Slots :
        /\ LabelledWinner(calls[s])
        /\ calls[s].pc = "done"
        /\ calls[s].endpoint[1].networkError = Some("timeout")
        /\ calls[s].outcome[1].kind = "failure"
        /\ \E d \in RegisteredFor(calls[s]) : d.networkError = None

--------------------------------------------------------------------------
(* Specification of the installation: the mocker constructed over either   *)
(* of two transports, the global slot restored, and assigned by code       *)
(* outside the mocker, which may put the interceptor back.                 *)

Transports == {"fetch", "polyfill"}

InstallEndpoints ==
    {Static("GET", UsersMe, "value", Plain("me")),
     [Static("GET", UsersId, "value", Plain("user")) EXCEPT !.status = Some(201)]}

InstallRequests ==
    {<<Input(UsersMe), None>>,
     <<Input(Users5), RequestInit(Some("POST"), None)>>}

InitInstall == InitWith({Config(None)}, Transports)

NextInstall ==
    \/ \E e \in InstallEndpoints : mock(e)
    \/ restore
    \/ \E f \in {"stub", "intercept"} : assignGlobalFetch(f)
    \/ enable
    \/ disable
    \/ \E r \in InstallRequests : Sequential /\ intercept(r[1], r[2])
    \/ \E s \in Slots : afterDelay(s)

SpecInstall == InitInstall /\ [][NextInstall]_vars

\* C9: the saved transport is one that was in the global slot before the
\* interceptor was installed, never the interceptor or a later content of
\* the slot; no operation changes it, and it is the one every request made
\* so far found saved; restore() leaves exactly it in
\* the slot, whatever the slot held, and changes nothing else; restore()
\* again changes nothing; requests passed through go to it.
C9_SavedTransportRestored ==
    /\ originalFetch \in Transports
    /\ ~ENABLED (/\ \/ \E e \in InstallEndpoints : mock(e)
                    \/ restore
                    \/ \E f \in {"stub", "intercept"} : assignGlobalFetch(f)
                    \/ enable
                    \/ disable
                 /\ originalFetch' # originalFetch)
    /\ \A s \in Slots :
          calls[s].pc # "none" => calls[s].seen.originalFetch = originalFetch
    /\ ~ENABLED (restore /\ ~(/\ globalFetch' = originalFetch
                              /\ UNCHANGED <<endpoints, config, isEnabled, state,
                                             originalFetch, calls, nextId, appended>>))
    /\ globalFetch = originalFetch => ~ENABLED (restore /\ ~UNCHANGED vars)
    /\ \A s \in Slots :
          (calls[s].pc = "done" /\ calls[s].outcome[1].kind = "real") =>
              calls[s].outcome[1].fn = originalFetch

\* The mocker was constructed over the polyfill, answered a request from an
\* endpoint, and the slot holds the polyfill again
C9_Witness ==
    /\ originalFetch = "polyfill"
    /\ globalFetch = originalFetch
    /\ \E s \in Slots :
          /\ calls[s].pc = "done"
          /\ calls[s].outcome[1].kind = "response"

--------------------------------------------------------------------------
(* Specification of the matcher: endpoints for one path that differ in a   *)
(* query constraint, a header constraint or a predicate, under a base URL  *)
(* with a path, and requests that carry, repeat or lack what they ask for. *)

ApiBase == Path(<<"api">>, TRUE, FALSE)
ApiUsersMe == Path(<<"api", "users", "me">>, TRUE, FALSE)

MatchEndpoints ==
    {[Static("GET", UsersMe, "value", Plain("a")) EXCEPT !.queryParams = Some([mode |-> "a"])],
     [Dynamic("GET", UsersMe, "readTodos") EXCEPT !.queryParams = Some([mode |-> "b"])],
     [Static("GET", UsersMe, "value", Plain("c"))
         EXCEPT !.requestHeaders = Some("X-Mode" :> "a")],
     [Static("GET", UsersMe, "value", Plain("special")) EXCEPT !.match = Some("special")]}

MatchRequests ==
    {<<Input(UsersMe), None>>,
     <<InputQuery(UsersMe, <<<<"mode", "a">>>>), None>>,
     <<InputQuery(UsersMe, <<<<"mode", "b">>, <<"mode", "a">>>>), None>>,
     <<Input(UsersMe), RequestHeaders("x-mode" :> "a")>>,
     <<Input(UsersMe), RequestHeaders("X-Mode" :> "b")>>,
     <<InputQuery(UsersMe, <<<<"special", "true">>>>), None>>,
     <<InputQuery(UsersMe, <<<<"mode", "a">>>>), RequestInit(Some("POST"), None)>>,
     <<InputQuery(ApiUsersMe, <<<<"mode", "a">>>>), None>>,
     <<InputQuery(Users5, <<<<"mode", "a">>>>), None>>}

InitMatch == InitWith({Config(Some(ApiBase))}, {"fetch"})

NextMatch ==
    \/ \E e \in MatchEndpoints : mock(e)
    \/ \E e \in MatchEndpoints : mockDynamic(e)
    \/ setState("testKey", "testValue")
    \/ \E r \in MatchRequests : Sequential /\ intercept(r[1], r[2])
    \/ \E s \in Slots : afterDelay(s)
    \/ \E s \in Slots : afterBody(s)

SpecMatch == InitMatch /\ [][NextMatch]_vars

\* No predicate registered for the call's method throws
PredicatesReturn(c) == Matched(c) /\ ~PredicateThrows(c.seen.reg, c.method)

\* C11: a request made while mocking is enabled, to which no registered
\* endpoint applies (no predicate throwing), has settled by the time the
\* interceptor returns, with the one call of the saved transport on its
\* (input, init) as its result, no endpoint chosen and no context built; and
\* the step of the interceptor that passes a request through leaves the
\* registry, the state and the configuration as they are.
C11_StatePart ==
    \A s \in Slots :
        LET c == calls[s]
        IN  (PredicatesReturn(c) /\ Applicable(c) = {}) =>
                /\ c.pc = "done"
                /\ c.outcome = Some([kind |-> "real", fn |-> originalFetch,
                                     input |-> c.input, init |-> c.init])
                /\ c.endpoint = None
                /\ c.context = None

C11_StepPart ==
    \A s \in Slots :
        (calls[s] # calls'[s] /\ calls'[s].pc = "done" /\ calls'[s].outcome[1].kind = "real")
            => UNCHANGED <<endpoints, state, config, isEnabled, originalFetch, mockers, appended>>

C11_UnmatchedFallsThrough == []C11_StatePart /\ [][C11_StepPart]_vars

\* With a dynamic endpoint registered and a key of the state set, a request
\* with options that nothing applies to went to the saved transport
C11_Witness ==
    /\ state # EmptyObject
    /\ \E s \in Slots :
          LET c == calls[s]
          IN  /\ PredicatesReturn(c)
              /\ Applicable(c) = {}
              /\ \E d \in RegisteredFor(c) : d.kind = "dynamic"
              /\ c.init # None
              /\ c.pc = "done"
              /\ c.outcome[1].kind = "real"

\* The conditions of applicability, each written on the request as it was
\* given to fetch
RequestPath(c) ==
    LET segs == c.request.url.path.segs
        base == getBasePath(c.seen.config)
    IN  IF base # <<>> /\ Len(segs) >= Len(base) /\ \A i \in 1..Len(base) : segs[i] = base[i]
        THEN [i \in 1..(Len(segs) - Len(base)) |-> segs[Len(base) + i]]
        ELSE segs

PatternFits(d, c) ==
    /\ Len(d.path.segs) = Len(RequestPath(c))
    /\ \A i \in 1..Len(d.path.segs) :
          IsParam(d.path.segs[i]) \/ d.path.segs[i] = RequestPath(c)[i]

PredicateHolds(d, c) == d.match # None => EvalMatch(d.match[1], c.request)

\* some occurrence of the key in the query string has the value
QueryCarries(c, key, value) ==
    \E i \in 1..Len(c.input.url.query) : c.input.url.query[i] = <<key, value>>

\* the first occurrence of the key in the query string has the value
QueryStartsWith(c, key, value) ==
    \E i \in 1..Len(c.input.url.query) :
        /\ c.input.url.query[i] = <<key, value>>
        /\ \A j \in 1..(i - 1) : c.input.url.query[j][1] # key

GivenHeaders(c) == IF c.init = None THEN EmptyObject ELSE c.init[1].headers

HeadersCarry(d, c) ==
    d.requestHeaders # None =>
        \A key \in DOMAIN d.requestHeaders[1] :
            \E name \in DOMAIN GivenHeaders(c) :
                /\ ToLower(name) = ToLower(key)
                /\ GivenHeaders(c)[name] = d.requestHeaders[1][key]

AppliesAsClaimed(d, c) ==
    /\ d.method = c.method
    /\ PredicateHolds(d, c)
    /\ PatternFits(d, c)
    /\ d.queryParams # None =>
          \A key \in DOMAIN d.queryParams[1] : QueryCarries(c, key, d.queryParams[1][key])
    /\ HeadersCarry(d, c)

AppliesByFirstValue(d, c) ==
    /\ d.method = c.method
    /\ PredicateHolds(d, c)
    /\ PatternFits(d, c)
    /\ d.queryParams # None =>
          \A key \in DOMAIN d.queryParams[1] : QueryStartsWith(c, key, d.queryParams[1][key])
    /\ HeadersCarry(d, c)

--------------------------------------------------------------------------
(* Specification of path patterns: dynamic endpoints whose patterns are    *)
(* prefixes of one another, with one and two parameters, with and without  *)
(* a base path, and request paths of one to four segments.                 *)

UserPosts == Path(<<"users", ":userId", "posts", ":postId">>, TRUE, FALSE)
UserPostList == Path(<<"users", ":id", "posts">>, TRUE, TRUE)

PathEndpoints ==
    {Dynamic("GET", p, "echoParams") : p \in {UsersId, UserPostList, UserPosts}}

PathRequests ==
    {Input(Path(<<"users">>, TRUE, FALSE)),
     Input(Path(<<"users", "1">>, TRUE, FALSE)),
     Input(Path(<<"users", "1", "posts">>, TRUE, FALSE)),
     Input(Path(<<"users", "1", "posts", "5">>, TRUE, FALSE)),
     Input(Path(<<"users", "1", "posts", "5">>, TRUE, TRUE)),
     Input(Path(<<"api", "users", "1">>, TRUE, FALSE)),
     Input(Path(<<"api", "users", "1", "posts", "5">>, TRUE, FALSE))}

InitPath == InitWith({Config(None), Config(Some(ApiBase))}, {"fetch"})

NextPath ==
    \/ \E e \in PathEndpoints : mockDynamic(e)
    \/ \E p \in {UsersId, UserPosts} : remove("GET", p)
    \/ \E r \in PathRequests : Sequential /\ intercept(r, None)
    \/ \E s \in Slots : afterDelay(s)
    \/ \E s \in Slots : afterBody(s)

SpecPath == InitPath /\ [][NextPath]_vars

\* The parameters the claim gives a handler: the name of each parameter
\* segment of the pattern, bound to the path segment at the same index
ParamsAsClaimed(d, c) ==
    LET at == {i \in 1..Len(d.path.segs) : IsParam(d.path.segs[i])}
    IN  [name \in {ParamName(d.path.segs[i]) : i \in at} |->
            RequestPath(c)[CHOOSE i \in at : ParamName(d.path.segs[i]) = name]]

\* C12: an endpoint that applies to a request has as many pattern segments
\* as the request path, without the base path, has segments, and its literal
\* segments are the path's at the same index; an endpoint with more or fewer
\* segments never applies; the context of the handler binds every parameter
\* of the winner's pattern to the path segment at its index, and so does the
\* answer of a handler that returns them.
C12_ParamsBoundPositionally ==
    \A s \in Slots :
        LET c == calls[s]
        IN  Matched(c) =>
                /\ \A d \in Applicable(c) : PatternFits(d, c)
                /\ \A d \in RegisteredFor(c) :
                      Len(d.path.segs) # Len(RequestPath(c)) => d \notin Applicable(c)
                /\ c.context # None =>
                      c.context[1].params = ParamsAsClaimed(c.endpoint[1], c)
                /\ (c.pc = "done" /\ c.endpoint # None) =>
                      c.outcome[1].response.body
                         = Some(Stringify([t |-> "object",
                                           f |-> ParamsAsClaimed(c.endpoint[1], c)]))

\* /api/users/1/posts/5 under the base path /api was answered with userId 1
\* and postId 5, the patterns /users/:id and /users/:id/posts being
\* registered as well
C12_Witness ==
    \E s \in Slots :
        LET c == calls[s]
        IN  /\ Matched(c)
            /\ c.pc = "done"
            /\ Len(c.request.url.path.segs) = 5
            /\ Cardinality(RegisteredFor(c)) = 3
            /\ c.outcome[1].kind = "response"
            /\ c.outcome[1].response.body
                  = Some(Stringify([t |-> "object", f |-> [userId |-> "1", postId |-> "5"]]))

--------------------------------------------------------------------------
(* Specification of failing handlers: one that throws, one that returns a  *)
(* rejected promise, one that writes to the state and then throws, and one *)
(* that reads what was written.                                            *)

FailEndpoints ==
    {Dynamic("GET", UsersMe, "throws"),
     Dynamic("GET", Users5, "rejects"),
     Dynamic("POST", Todos, "appendThenThrow"),
     Dynamic("GET", Todos, "readTodos")}

FailRequests ==
    {<<Input(UsersMe), None>>,
     <<Input(Users5), None>>,
     <<Input(Todos), RequestInit(Some("POST"), Some(Stringify(TodoBody("First"))))>>,
     <<Input(Todos), None>>}

InitFail == InitWith({Config(None)}, {"fetch"})

NextFail ==
    \/ \E e \in FailEndpoints : mockDynamic(e)
    \/ setState("testKey", "testValue")
    \/ clearState
    \/ \E r \in FailRequests : Sequential /\ intercept(r[1], r[2])
    \/ \E s \in Slots : afterDelay(s)
    \/ \E s \in Slots : afterBody(s)

SpecFail == InitFail /\ [][NextFail]_vars

\* What each failing handler throws or rejects with
Thrown(handler) ==
    CASE handler = "rejects" -> [name |-> "Error", message |-> "handler rejected"]
      [] handler \in {"throws", "appendThenThrow"} ->
            [name |-> "Error", message |-> "handler failed"]

Fails(handler) == handler \in {"throws", "rejects", "appendThenThrow"}

\* The call in slot s is about to run a failing handler
FailingHandlerDue(s) ==
    /\ calls[s].pc = "body"
    /\ Fails(calls[s].endpoint[1].handler)

\* a call won by a failing handler settles as a failure with the very value
\* the handler threw or rejected with
FailsUnwrapped ==
    \A s \in Slots :
        LET c == calls[s]
        IN  (c.pc = "done" /\ c.endpoint # None /\ Fails(c.endpoint[1].handler)) =>
                /\ c.outcome[1].kind = "failure"
                /\ c.outcome[1].error = Thrown(c.endpoint[1].handler)

\* C14 as claimed: a failing handler's error is the failure of the call, and
\* the step in which it fails leaves the registry, the configuration and the
\* state as they were.
C14_Claimed ==
    /\ FailsUnwrapped
    /\ \A s \in Slots :
          ~ENABLED (/\ FailingHandlerDue(s)
                    /\ afterBody(s)
                    /\ ~UNCHANGED <<endpoints, config, state>>)

\* C14, amended: the same for the registry and the configuration; the state
\* after the failure is the state with what the handler wrote before it
\* failed, and the state as it was when the handler wrote nothing.
C14_HandlerFailurePropagates ==
    /\ FailsUnwrapped
    /\ \A s \in Slots :
          ~ENABLED (/\ FailingHandlerDue(s)
                    /\ afterBody(s)
                    /\ ~(/\ UNCHANGED <<endpoints, config, isEnabled>>
                         /\ ~Appends(calls[s].endpoint[1].handler) => state' = state
                         /\ Appends(calls[s].endpoint[1].handler) =>
                               /\ getState'.todos.items
                                     = appended \o <<Todo(calls[s].context[1].body)>>
                               /\ \A k \in DOMAIN state \ {"todos"} :
                                     k \in DOMAIN state' /\ state'[k] = state[k]))

\* The handler that pushes a todo and then throws failed a call with what it
\* threw; the todo is in the state, next to a key that was set before
C14_Witness ==
    /\ {"testKey", "todos"} \subseteq DOMAIN getState
    /\ getState.todos = Array(<<Todo(TodoBody("First"))>>)
    /\ \E s \in Slots :
          LET c == calls[s]
          IN  /\ c.pc = "done"
              /\ c.endpoint # None
              /\ c.endpoint[1].handler = "appendThenThrow"
              /\ c.outcome[1].kind = "failure"
              /\ c.outcome[1].error = [name |-> "Error", message |-> "handler failed"]

--------------------------------------------------------------------------
(* Specification of the response built from a resolved value: payloads and *)
(* response descriptors with and without status and headers, from static   *)
(* values, response functions and handlers, under definitions with and     *)
(* without status and headers and configurations with and without global   *)
(* headers.                                                                *)

WithMeta == Path(<<"with-meta">>, TRUE, FALSE)
CustomResponse == Path(<<"custom-response">>, TRUE, FALSE)

\* { data, headers }, { data, status, headers } and { status }
DataHeaders(d, headers) == [t |-> "object", f |-> [data |-> d, headers |-> headers]]
DataStatusHeaders(d, st, headers) ==
    [t |-> "object", f |-> [data |-> d, status |-> st, headers |-> headers]]
StatusOnly(st) == [t |-> "object", f |-> [status |-> st]]

\* A definition with the options status and headers
Declaring(endpoint, status, headers) ==
    [endpoint EXCEPT !.status = status, !.headers = headers]

BuildEndpoints ==
    {Declaring(Static("GET", WithMeta, "function",
                      DataStatusHeaders(Plain("ok"), 202, "X-Meta" :> "descriptor")),
               Some(201), Some("X-Meta" :> "definition" @@ "Accept" :> "definition")),
     Declaring(Static("GET", UsersMe, "value", DataHeaders(Plain("me"), "Accept" :> "descriptor")),
               Some(201), None),
     Declaring(Static("GET", Users5, "value", DataOnly(Plain("five"))),
               Some(201), Some("content-type" :> "text/plain")),
     Static("GET", Todos, "value", StatusOnly(500)),
     Declaring(Dynamic("POST", UsersId, "overrides"),
               Some(201), Some("X-Meta" :> "definition"))}

BuildRequests ==
    {<<Input(WithMeta), None>>,
     <<Input(UsersMe), None>>,
     <<Input(Users5), None>>,
     <<Input(Todos), None>>,
     <<Input(Users5), RequestInit(Some("POST"), None)>>}

BuildConfigs ==
    {Config(None),
     [Config(None) EXCEPT !.globalHeaders = Some("X-Meta" :> "global")]}

InitBuild == InitWith(BuildConfigs, {"fetch"})

NextBuild ==
    \/ \E e \in BuildEndpoints : mock(e)
    \/ \E e \in BuildEndpoints : mockDynamic(e)
    \/ \E r \in BuildRequests : Sequential /\ intercept(r[1], r[2])
    \/ \E s \in Slots : afterDelay(s)
    \/ \E s \in Slots : afterBody(s)

SpecBuild == InitBuild /\ [][NextBuild]_vars

\* The value the definition that answered the call resolved to
ResolvedValue(c) ==
    LET d == c.endpoint[1]
    IN  IF d.kind = "static" THEN d.response.v
        ELSE RunHandler(d.handler, c.context[1], EmptyObject).v

\* The call was answered by a definition whose value resolved
Resolved(c) ==
    /\ c.pc = "done"
    /\ c.endpoint # None
    /\ c.endpoint[1].networkError = None
    /\ c.endpoint[1].kind = "static" => c.endpoint[1].response.src # "throws"
    /\ c.endpoint[1].kind = "dynamic" =>
           c.endpoint[1].handler \in {"overrides", "returnsResponse"}

\* A response descriptor: a data key and a status or a headers key
DescriptorAsClaimed(v) ==
    /\ v.t = "object"
    /\ "data" \in DOMAIN v.f
    /\ {"status", "headers"} \cap DOMAIN v.f # {}

StatusAsClaimed(d, v) ==
    IF DescriptorAsClaimed(v) /\ "status" \in DOMAIN v.f THEN v.f.status
    ELSE IF d.status # None THEN d.status[1]
    ELSE 200

\* global headers, definition headers, descriptor headers, in this order
HeaderSources(cfg, d, v) ==
    <<cfg.globalHeaders,
      OrElse(d.headers, EmptyObject),
      IF DescriptorAsClaimed(v) /\ "headers" \in DOMAIN v.f THEN v.f.headers ELSE EmptyObject>>

\* The sources that give the header called name, whatever its case
Giving(sources, name) ==
    {i \in 1..Len(sources) : \E k \in DOMAIN sources[i] : ToLower(k) = name}

\* The overlay of the sources, a header of the later source replacing the
\* header of that name of an earlier one
OverlaidHeaders(sources) ==
    [name \in UNION {{ToLower(k) : k \in DOMAIN sources[i]} : i \in 1..Len(sources)} |->
        LET last == CHOOSE i \in Giving(sources, name) :
                        \A j \in Giving(sources, name) : j <= i
        IN  {sources[last][CHOOSE k \in DOMAIN sources[last] : ToLower(k) = name]}]

\* C15 as claimed: a call whose definition resolved to a value that is not a
\* Response is answered with the descriptor's status, else the definition's,
\* else 200, and with the global headers overlaid by the definition's
\* headers overlaid by the descriptor's, the later source winning each
\* header both give.
C15_Claimed ==
    \A s \in Slots :
        LET c == calls[s]
        IN  (Resolved(c) /\ ResolvedValue(c).t # "Response") =>
                /\ c.outcome[1].kind = "response"
                /\ c.outcome[1].response.status = StatusAsClaimed(c.endpoint[1], ResolvedValue(c))
                /\ c.outcome[1].response.headers
                      = OverlaidHeaders(HeaderSources(c.seen.config, c.endpoint[1],
                                                      ResolvedValue(c)))

--------------------------------------------------------------------------
(* Specification of Response objects as resolved values: a response        *)
(* function and a handler that return one, next to a definition whose      *)
(* value is normalized, each declaring a status and headers, under global  *)
(* headers.                                                                *)

ResponseEndpoints ==
    {Declaring(Static("GET", CustomResponse, "function",
                      ResponseWith(203, "custom", NewHeaders("X-Meta" :> "custom"))),
               Some(201), Some("X-Meta" :> "definition" @@ "Accept" :> "definition")),
     Declaring(Dynamic("GET", UsersId, "returnsResponse"),
               Some(201), Some("X-Meta" :> "definition")),
     Declaring(Static("GET", Todos, "value", DataOnly(Plain("todos"))),
               Some(201), Some("X-Meta" :> "definition"))}

ResponseRequests ==
    {<<Input(CustomResponse), None>>,
     <<Input(Users5), None>>,
     <<Input(Todos), None>>}

InitResponse == InitWith(BuildConfigs, {"fetch"})

NextResponse ==
    \/ \E e \in ResponseEndpoints : mock(e)
    \/ \E e \in ResponseEndpoints : mockDynamic(e)
    \/ \E method \in {"GET"}, path \in {CustomResponse, UsersId} : remove(method, path)
    \/ \E r \in ResponseRequests : Sequential /\ intercept(r[1], r[2])
    \/ \E s \in Slots : afterDelay(s)
    \/ \E s \in Slots : afterBody(s)

SpecResponse == InitResponse /\ [][NextResponse]_vars

\* C16: a call whose definition (a static response function or a dynamic
\* handler) resolved to a Response object settles with that very Response:
\* its status, body and headers are the object's own, whatever status and
\* headers the definition declares and whatever the global headers are.
C16_ResponseReturnedUnchanged ==
    \A s \in Slots :
        LET c == calls[s]
        IN  (Resolved(c) /\ ResolvedValue(c).t = "Response") =>
                /\ c.outcome[1].kind = "response"
                /\ c.outcome[1].response = ResolvedValue(c)

\* A handler answered with its Response, status 203 and its own X-Meta,
\* under a definition declaring status 201 and the header X-Meta and a
\* configuration with the global header X-Meta
C16_Witness ==
    /\ "X-Meta" \in DOMAIN config.globalHeaders
    /\ \E s \in Slots :
          LET c == calls[s]
          IN  /\ Resolved(c)
              /\ c.endpoint[1].status = Some(201)
              /\ c.endpoint[1].headers # None
              /\ c.endpoint[1].kind = "dynamic"
              /\ c.outcome[1].kind = "response"
              /\ c.outcome[1].response.status = 203
              /\ c.outcome[1].response.headers = NewHeaders("X-Meta" :> "handler")

--------------------------------------------------------------------------
(* Specification of the enabled flag: every operation of the mocker, over  *)
(* a definition that answers, one that fails with a network error and a    *)
(* handler that throws.                                                    *)

FlagEndpoints ==
    {Static("GET", UsersMe, "value", Plain("me")),
     Labelled(Static("GET", Users5, "value", Plain("user")), "timeout"),
     Dynamic("GET", Todos, "throws")}

FlagRequests ==
    {<<Input(UsersMe), None>>,
     <<Input(Users5), None>>,
     <<Input(Todos), None>>}

\* updateConfig({ globalDelay: 100 })
GlobalDelayUpdate == [Config(None) EXCEPT !.globalDelay = Some(100)]

InitFlag == InitWith({Config(None)}, {"fetch"})

NextFlag ==
    \/ \E e \in FlagEndpoints : mock(e)
    \/ \E e \in FlagEndpoints : mockDynamic(e)
    \/ enable
    \/ disable
    \/ clear
    \/ remove("GET", UsersMe)
    \/ setState("testKey", "testValue")
    \/ clearState
    \/ updateConfig(GlobalDelayUpdate)
    \/ restore
    \/ \E r \in FlagRequests : Sequential /\ intercept(r[1], r[2])
    \/ \E s \in Slots : sleep(s)
    \/ \E s \in Slots : afterDelay(s)
    \/ \E s \in Slots : afterBody(s)

SpecFlag == InitFlag /\ [][NextFlag]_vars

\* A step that changes the flag is enable(), leaving it set, or disable(),
\* leaving it unset
FlagStep ==
    isEnabled' # isEnabled =>
        \/ enable /\ isEnabled'
        \/ disable /\ ~isEnabled'

\* C18: the mocker is enabled after construction, and every step that
\* changes the enabled flag is enable(), which sets it, or disable(), which
\* unsets it: no registration, removal, clearing, state operation,
\* configuration update, restore() or step of a request, failed ones
\* included, changes it.
C18_FlagChangesOnlyByEnableDisable == (isEnabled = TRUE) /\ [][FlagStep]_vars

\* The mocker is disabled, after restore() and a configuration update, the
\* state set, and the last call, answered by the handler that throws, failed
C18_Witness ==
    /\ ~isEnabled
    /\ globalFetch = originalFetch
    /\ config.globalDelay = 100
    /\ "testKey" \in DOMAIN state
    /\ \E s \in Slots :
          /\ calls[s].pc = "done"
          /\ calls[s].endpoint # None
          /\ calls[s].endpoint[1].handler = "throws"
          /\ calls[s].outcome[1].kind = "failure"

--------------------------------------------------------------------------
(* Specification of construction: the global slot, assigned by the         *)
(* environment, holds a transport or none when the mocker is constructed;  *)
(* a constructed mocker registers, answers and is restored.                *)

\* What the environment leaves in the global slot
SlotContents == {"fetch", "polyfill", "undefined", "object"}

InitConstruct ==
    /\ NoInstance
    /\ globalFetch \in {"fetch", "undefined"}
    /\ calls = [s \in Slots |-> NoCall]
    /\ nextId = 1
    /\ appended = <<>>
    /\ construction = None
    /\ mockers = <<>>

NextConstruct ==
    \/ \E f \in SlotContents : ~Constructed /\ assignGlobalFetch(f)
    \/ \E c \in BuildConfigs : constructor(c)
    \/ \E e \in InstallEndpoints : Constructed /\ mock(e)
    \/ Constructed /\ disable
    \/ Constructed /\ enable
    \/ Constructed /\ restore
    \/ \E r \in InstallRequests : Constructed /\ Sequential /\ intercept(r[1], r[2])
    \/ \E s \in Slots : afterDelay(s)

SpecConstruct == InitConstruct /\ [][NextConstruct]_vars

ConfigurationError ==
    [kind |-> "failure",
     error |-> [name |-> "Error",
                message |-> "ApiMocker requires a global fetch implementation. Please provide a fetch polyfill before creating an ApiMocker instance."]]

\* C19: while the global slot holds no function, constructing a mocker ends
\* with the configuration error and changes nothing else: the slot and the
\* fields stay as they were; and as long as no construction succeeded
\* there is no instance, the interceptor is not in the slot and no request
\* was intercepted.
C19_ConstructionFailsWithoutTransport ==
    /\ ~ENABLED (/\ ~IsFunction(globalFetch)
                 /\ \E c \in BuildConfigs : constructor(c)
                 /\ ~(/\ construction' = Some(ConfigurationError)
                      /\ UNCHANGED <<endpoints, config, isEnabled, state, originalFetch, mockers,
                                      globalFetch, calls, nextId, appended>>))
    /\ ~Constructed =>
          /\ NoInstance
          /\ globalFetch # "intercept"
          /\ \A s \in Slots : calls[s] = NoCall

\* A construction has failed with the configuration error, the slot still
\* holding undefined
C19_Witness ==
    /\ construction = Some(ConfigurationError)
    /\ globalFetch = "undefined"
    /\ NoInstance

--------------------------------------------------------------------------
(* Specification of delays: definitions without a delay, with the delay 0  *)
(* and with a positive delay, one of them failing with a network error and *)
(* one answered by a handler, under a default delay of 0 or 100 that a     *)
(* configuration update raises.                                            *)

Delayed(endpoint, delay) == [endpoint EXCEPT !.delay = Some(delay)]

DelayEndpoints ==
    {Static("GET", UsersMe, "value", Plain("me")),
     Delayed(Static("GET", Users5, "value", Plain("user")), 0),
     Delayed(Labelled(Static("POST", UsersMe, "value", Plain("created")), "timeout"), 50),
     Delayed(Dynamic("GET", Todos, "readTodos"), 50)}

DelayRequests ==
    {<<Input(UsersMe), None>>,
     <<Input(Users5), None>>,
     <<Input(UsersMe), RequestInit(Some("POST"), None)>>,
     <<Input(Todos), None>>}

InitDelay == InitWith({Config(None), GlobalDelayUpdate}, {"fetch"})

NextDelay ==
    \/ \E e \in DelayEndpoints : mock(e)
    \/ \E e \in DelayEndpoints : mockDynamic(e)
    \/ updateConfig(GlobalDelayUpdate)
    \/ \E r \in DelayRequests : Sequential /\ intercept(r[1], r[2])
    \/ \E s \in Slots : sleep(s)
    \/ \E s \in Slots : afterDelay(s)
    \/ \E s \in Slots : afterBody(s)

SpecDelay == InitDelay /\ [][NextDelay]_vars

\* C20: the delay of a matched call is its definition's delay when the
\* definition gives one, 0 included, else the default delay of the
\* configuration the call found; a call with a positive delay waits on a
\* timer of exactly that duration, and until the timer has fired there is
\* no request context (no handler was called) and no outcome (no response,
\* no network failure); a call with delay 0 never waits on a timer.
C20_DelayBeforeAnyOutcome ==
    \A s \in Slots :
        LET c == calls[s]
        IN  (c.pc # "none" /\ c.endpoint # None) =>
                /\ c.delay = IF c.endpoint[1].delay # None THEN c.endpoint[1].delay[1]
                              ELSE c.seen.config.globalDelay
                /\ c.delay > 0 => c.timer = Some(c.delay)
                /\ c.delay = 0 => c.timer = None /\ c.pc # "sleep"
                /\ c.pc = "sleep" => c.slept = 0
                /\ (c.context # None \/ c.outcome # None \/ c.pc \in {"delay", "body", "done"})
                      => c.slept = c.delay

\* Under a default delay of 100, the definition with delay 0 has answered
\* without a timer
C20_Witness ==
    \E s \in Slots :
        LET c == calls[s]
        IN  /\ c.pc = "done"
            /\ c.endpoint # None
            /\ c.seen.config.globalDelay = 100
            /\ c.endpoint[1].delay = Some(0)
            /\ c.timer = None
            /\ c.outcome[1].kind = "response"

--------------------------------------------------------------------------
(* Specification of aborted requests: requests made with a signal, aborted *)
(* by the caller while the call sleeps or reads the request body, to a     *)
(* delayed static definition and to a delayed handler that appends to the  *)
(* state.                                                                  *)

\* fetch(url, { method, body, signal })
RequestInitWithSignal(method, body) ==
    Some([method |-> method, headers |-> EmptyObject, body |-> body, signal |-> "signal"])

AbortEndpoints ==
    {Delayed(Static("GET", UsersMe, "value", Plain("me")), 50),
     Delayed(Dynamic("POST", Todos, "appendTodo"), 50),
     Dynamic("GET", Todos, "readTodos")}

AbortRequests ==
    {<<Input(UsersMe), RequestInitWithSignal(None, None)>>,
     <<Input(Todos), RequestInitWithSignal(Some("POST"), Some(Stringify(TodoBody("First"))))>>,
     <<Input(Todos), None>>}

InitAbort == InitWith({Config(None)}, {"fetch"})

NextAbort ==
    \/ \E e \in AbortEndpoints : mock(e)
    \/ \E e \in AbortEndpoints : mockDynamic(e)
    \/ \E r \in AbortRequests : Sequential /\ intercept(r[1], r[2])
    \/ \E s \in Slots : abort(s)
    \/ \E s \in Slots : sleep(s)
    \/ \E s \in Slots : afterDelay(s)
    \/ \E s \in Slots : afterBody(s)

SpecAbort == InitAbort /\ [][NextAbort]_vars

\* C21 as claimed: a call whose request was aborted while it slept or read
\* the request body does not go on to build a request context or to call
\* the handler, and it ends with the abort failure, not with a response.
C21_Claimed ==
    \A s \in Slots :
        LET c == calls[s]
        IN  (c.pc # "none" /\ c.endpoint # None /\ c.abortedAt \in {Some("sleep"), Some("body")}) =>
                /\ c.abortedAt = Some("sleep") => c.context = None
                /\ c.pc = "done" =>
                       /\ c.outcome[1].kind = "failure"
                       /\ c.outcome[1].error.name = "AbortError"

--------------------------------------------------------------------------
(* Specification of the registry keys: one pattern registered under three  *)
(* spellings, users, /users and /users/, removed under each of them.       *)

UsersBare == Path(<<"users">>, FALSE, FALSE)
UsersRooted == Path(<<"users">>, TRUE, FALSE)

Spellings == {UsersBare, UsersRooted, UsersBase}

KeyEndpoints ==
    {Static("GET", p, "value", Plain("users")) : p \in Spellings}
        \cup {Static("POST", UsersRooted, "value", Plain("created")),
              Static("GET", UsersMe, "value", Plain("me"))}

InitKey == InitWith({Config(None)}, {"fetch"})

NextKey ==
    \/ \E e \in KeyEndpoints : mock(e)
    \/ \E p \in Spellings : remove("GET", p)
    \/ \E p \in {UsersRooted, UsersMe} : Sequential /\ intercept(Input(p), None)
    \/ \E s \in Slots : afterDelay(s)

SpecKey == InitKey /\ [][NextKey]_vars

\* The pattern as the claim normalizes it: the leading / ensured, a trailing
\* / stripped
NormalizedPattern(path) == trimTrailingSlash(normalizePath(path))

\* C22 as claimed: the registrations of one method whose patterns normalize
\* to the same pattern are in the list of one key, and remove(method, p)
\* with any spelling of the pattern leaves none of them registered.
C22_Claimed ==
    /\ \A i, j \in 1..Len(endpoints) :
          (/\ endpoints[i].key[1] = endpoints[j].key[1]
           /\ NormalizedPattern(endpoints[i].key[2]) = NormalizedPattern(endpoints[j].key[2]))
              => i = j
    /\ \A p \in Spellings :
          ~ENABLED (/\ remove("GET", p)
                    /\ \E i \in 1..Len(endpoints') :
                          /\ endpoints'[i].key[1] = "GET"
                          /\ NormalizedPattern(endpoints'[i].key[2]) = NormalizedPattern(p))

--------------------------------------------------------------------------
(* Specification of configuration updates under way: a delayed static      *)
(* definition and a delayed handler echoing its path parameters, under a   *)
(* base URL, with updates of the global headers, the default delay and the *)
(* base URL made at any time.                                              *)

ApiUsers5 == Path(<<"api", "users", "5">>, TRUE, FALSE)

UpdateEndpoints ==
    {Delayed(Static("GET", UsersMe, "value", Plain("me")), 50),
     Static("GET", Todos, "value", Plain("todos")),
     Dynamic("GET", UsersId, "echoParams")}

UpdateRequests ==
    {<<Input(ApiUsersMe), None>>,
     <<Input(Todos), None>>,
     <<Input(ApiUsers5), None>>}

\* updateConfig({ globalHeaders: { 'X-Meta': 'late' } }) and
\* updateConfig({ baseUrl: '' })
ConfigUpdates ==
    {GlobalDelayUpdate,
     [Config(None) EXCEPT !.globalHeaders = Some("X-Meta" :> "late")],
     Config(Some(None))}

InitUpdate == InitWith({Config(Some(ApiBase))}, {"fetch"})

NextUpdate ==
    \/ \E e \in UpdateEndpoints : mock(e)
    \/ \E e \in UpdateEndpoints : mockDynamic(e)
    \/ \E u \in ConfigUpdates : updateConfig(u)
    \/ \E r \in UpdateRequests : Sequential /\ intercept(r[1], r[2])
    \/ \E s \in Slots : sleep(s)
    \/ \E s \in Slots : afterDelay(s)
    \/ \E s \in Slots : afterBody(s)

SpecUpdate == InitUpdate /\ [][NextUpdate]_vars

\* C23 as claimed: a matched call keeps the configuration it was matched
\* under, whatever updateConfig does while it is under way: its delay is the
\* one that configuration gives, the path parameters of its context are
\* extracted with that configuration's base path, and the headers of its
\* response are that configuration's global headers overlaid by the
\* definition's.
C23_Claimed ==
    \A s \in Slots :
        LET c == calls[s]
            d == c.endpoint[1]
        IN  (c.pc # "none" /\ c.endpoint # None) =>
                /\ c.delay = EndpointDelay(d, c.seen.config)
                /\ c.context # None =>
                       c.context[1].params = extractParams(c.seen.config, d.path, c.request.url)
                /\ (c.pc = "done" /\ c.outcome[1].kind = "response") =>
                       c.outcome[1].response.headers
                           = NewHeaders(mergeHeaders(c.seen.config, <<d.headers>>))

--------------------------------------------------------------------------
(* Specification of concurrent handlers: requests not awaited one after    *)
(* the other, to handlers that suspend before they write to the state and  *)
(* to one that reads it, with the state set and replaced at any time.      *)

Counter == Path(<<"counter">>, TRUE, FALSE)

RaceEndpoints ==
    {Dynamic("POST", Todos, "asyncAppend"),
     Dynamic("GET", Todos, "readTodos")}

RaceRequests ==
    {<<Input(Todos), RequestInit(Some("POST"), Some(Stringify(TodoBody("First"))))>>,
     <<Input(Todos), None>>}

InitRace == InitWith({Config(None)}, {"fetch"})

NextRace ==
    \/ \E e \in RaceEndpoints : mockDynamic(e)
    \/ setState("testKey", "testValue")
    \/ clearState
    \/ clear
    \/ \E r \in RaceRequests : intercept(r[1], r[2])
    \/ \E s \in Slots : afterDelay(s)
    \/ \E s \in Slots : afterBody(s)
    \/ \E s \in Slots : afterHandler(s)

SpecRace == InitRace /\ [][NextRace]_vars

\* The handler of the call in slot s is about to resume and push its todo
PushDue(s) ==
    /\ calls[s].pc = "handler"
    /\ calls[s].endpoint[1].handler = "asyncAppend"

\* C24 as claimed: whatever setState(), clearState() and clear() did while a
\* handler was suspended, the todo it pushes through context.state when it
\* resumes is in the state getState() shows, as its last todo.
C24_Claimed ==
    \A s \in Slots :
        ~ENABLED (/\ PushDue(s)
                  /\ afterHandler(s)
                  /\ ~(/\ "todos" \in DOMAIN getState'
                       /\ getState'.todos.items # <<>>
                       /\ getState'.todos.items[Len(getState'.todos.items)]
                             = Todo(calls[s].context[1].body)))

--------------------------------------------------------------------------
(* Specification of a read-modify-write handler under concurrent requests: *)
(* it reads state.count, suspends, and writes the count it read plus one.  *)

CountEndpoints == {Dynamic("POST", Counter, "asyncIncrement")}

CountRequest == <<Input(Counter), RequestInit(Some("POST"), None)>>

InitCount == InitWith({Config(None)}, {"fetch"})

NextCount ==
    \/ \E e \in CountEndpoints : mockDynamic(e)
    \/ remove("POST", Counter)
    \/ intercept(CountRequest[1], CountRequest[2])
    \/ \E s \in Slots : afterDelay(s)
    \/ \E s \in Slots : afterBody(s)
    \/ \E s \in Slots : afterHandler(s)

SpecCount == InitCount /\ [][NextCount]_vars

\* C25: handlers are not serialized and the state is not locked. A call
\* whose body was read can enter its handler whatever the other calls are
\* doing, also while another handler is suspended between its read and its
\* write; and a handler that resumes writes the count it read plus one over
\* whatever the state holds by then, so that the count can end below the
\* number of increments made.
C25_HandlersRaceOnState ==
    \A s \in Slots :
        /\ calls[s].pc = "body" => ENABLED afterBody(s)
        /\ calls[s].pc = "handler" =>
               /\ ENABLED afterHandler(s)
               /\ ~ENABLED (/\ afterHandler(s)
                            /\ state'.count # calls[s].local + 1)

\* Two requests were under way together, their handlers both read the count
\* 0 and both returned the count 1, and the state holds the count 1: one
\* increment is lost
C25_Witness ==
    /\ "count" \in DOMAIN state
    /\ state.count = 1
    /\ \A s \in {1, 2} :
          /\ calls[s].pc = "done"
          /\ calls[s].endpoint # None
          /\ calls[s].local = 0
          /\ calls[s].outcome[1].kind = "response"
          /\ calls[s].outcome[1].response.body
                = Some(Stringify([t |-> "object", f |-> [count |-> 1]]))

--------------------------------------------------------------------------
(* Specification of the lists of the registry: static and dynamic          *)
(* definitions of three priorities registered under two keys, removed and  *)
(* cleared in any order, and requests awaited one after the other.         *)

OrderPriorities == {None, Some(5), Some(10)}

OrderEndpoints ==
    {[Static("GET", UsersId, "value", Plain("user")) EXCEPT !.priority = pr] :
        pr \in OrderPriorities}
    \cup {[Dynamic("GET", UsersId, "echoParams") EXCEPT !.priority = pr] :
        pr \in OrderPriorities}
    \cup {Static("GET", UsersMe, "value", Plain("me"))}

InitOrder == InitWith({Config(None)}, {"fetch"})

NextOrder ==
    \/ \E e \in OrderEndpoints : mock(e)
    \/ \E e \in OrderEndpoints : mockDynamic(e)
    \/ \E p \in {UsersId, UsersMe} : remove("GET", p)
    \/ clear
    \/ \E p \in {UsersMe, Users5} : Sequential /\ intercept(Input(p), None)
    \/ \E s \in Slots : afterDelay(s)
    \/ \E s \in Slots : afterBody(s)

SpecOrder == InitOrder /\ [][NextOrder]_vars

\* A list of the registry as the claim has it: not empty, of non-increasing
\* priority, and in registration order where the priority is equal
Ordered(list) ==
    /\ Len(list) >= 1
    /\ \A i, j \in 1..Len(list) :
          i < j => \/ list[i].priority > list[j].priority
                   \/ /\ list[i].priority = list[j].priority
                      /\ list[i].id < list[j].id

\* C26: after any sequence of mock, mockDynamic, remove and clear, the list
\* of each registry key is ordered by non-increasing priority, definitions
\* of equal priority stand in their registration order, and no list is
\* empty; this holds of the registry in every state and of the registry
\* every request was matched against.
C26_ListsOrderedByPriorityThenRegistration ==
    /\ \A i \in 1..Len(endpoints) : Ordered(endpoints[i].list)
    /\ \A s \in Slots :
          calls[s].pc # "none" =>
              \A i \in 1..Len(calls[s].seen.reg) : Ordered(calls[s].seen.reg[i].list)

\* A request was matched against a list of three definitions in which the
\* one registered last stands first, for its higher priority, and the two
\* of equal priority, one static and one dynamic, keep their order
C26_Witness ==
    \E s \in Slots :
        /\ calls[s].pc = "done"
        /\ \E i \in 1..Len(calls[s].seen.reg) :
              LET list == calls[s].seen.reg[i].list
              IN  /\ Len(list) = 3
                  /\ list[1].id = 3
                  /\ list[2].id = 1
                  /\ list[3].id = 2
                  /\ list[2].priority = list[3].priority
                  /\ list[2].kind # list[3].kind

--------------------------------------------------------------------------
(* Priority against specificity, over the endpoints of the ranker *)

\* C27: priority dominates specificity across registry keys. An applicable
\* definition more specific than the winner has a lower priority than the
\* winner, and a request to /users/me to which /users/me applies only with
\* priorities below that of an applicable /users/:id is not answered from
\* /users/me:
\* specificity decides only between definitions of equal priority.
C27_PriorityDominatesSpecificity ==
    \A s \in Slots :
        LET c == calls[s]
        IN  (Matched(c) /\ c.endpoint # None) =>
                /\ \A e \in Applicable(c) :
                      calculateSpecificity(e.path) > calculateSpecificity(c.endpoint[1].path)
                          => e.priority < c.endpoint[1].priority
                /\ (\E f \in Applicable(c) :
                       /\ f.path = UsersId
                       /\ \E e \in Applicable(c) : e.path = UsersMe
                       /\ \A e \in Applicable(c) :
                             e.path = UsersMe => e.priority < f.priority)
                   => /\ c.endpoint[1].path # UsersMe
                      /\ c.pc = "done" =>
                            /\ c.outcome[1].kind = "response"
                            /\ c.outcome[1].def = c.endpoint[1].id

\* A request to /users/me answered from /users/:id of priority 10 while
\* /users/me, registered before it with the default priority, applies
C27_Witness ==
    \E s \in Slots :
        LET c == calls[s]
        IN  /\ Matched(c)
            /\ c.pc = "done"
            /\ c.request.url.path = UsersMe
            /\ c.outcome[1].kind = "response"
            /\ c.endpoint[1].path = UsersId
            /\ c.endpoint[1].priority = 10
            /\ c.outcome[1].def = c.endpoint[1].id
            /\ \E e \in Applicable(c) :
                  /\ e.path = UsersMe
                  /\ e.priority = 0
                  /\ e.id < c.endpoint[1].id

--------------------------------------------------------------------------
(* Specification of labelled definitions that could build a payload: a     *)
(* delayed handler that appends to the state and a response function, both *)
(* labelled, next to the same handler without a label, under no default    *)
(* delay and under one of 100, with requests that carry a body.            *)

SkipEndpoints ==
    {Dynamic("POST", Todos, "appendTodo"),
     Delayed(Labelled(Dynamic("POST", UsersMe, "appendTodo"), "timeout"), 50),
     Labelled(Dynamic("POST", Users5, "appendTodo"), "connection_refused"),
     Labelled(Static("GET", UsersMe, "function", Plain("me")), "abort")}

SkipRequests ==
    {<<Input(Todos), RequestInit(Some("POST"), Some(Stringify(TodoBody("First"))))>>,
     <<Input(UsersMe), RequestInit(Some("POST"), Some(Stringify(TodoBody("Second"))))>>,
     <<Input(Users5), RequestInit(Some("POST"), Some(Stringify(TodoBody("Second"))))>>,
     <<Input(UsersMe), None>>}

InitSkip == InitWith({Config(None), GlobalDelayUpdate}, {"fetch"})

NextSkip ==
    \/ \E e \in SkipEndpoints : mock(e)
    \/ \E e \in SkipEndpoints : mockDynamic(e)
    \/ \E r \in SkipRequests : Sequential /\ intercept(r[1], r[2])
    \/ \E s \in Slots : sleep(s)
    \/ \E s \in Slots : afterDelay(s)
    \/ \E s \in Slots : afterBody(s)

SpecSkip == InitSkip /\ [][NextSkip]_vars

\* C28: a call whose winner declares a label builds no payload. It is never
\* found reading the request body or in its handler, it has no request
\* context, the steps it takes leave the shared state as it was, and it has
\* its outcome, the failure, only once its effective delay (the definition's,
\* else the configuration's default) has elapsed on the timer.
C28_LabelSkipsPayloadConstruction ==
    \A s \in Slots :
        LET c == calls[s]
        IN  LabelledWinner(c) =>
                /\ c.pc \in {"sleep", "delay", "done"}
                /\ c.context = None
                /\ ~ENABLED (/\ sleep(s) \/ afterDelay(s)
                             /\ <<state, appended>>' # <<state, appended>>)
                /\ c.delay = EndpointDelay(c.endpoint[1], c.seen.config)
                /\ c.outcome # None =>
                      /\ c.pc = "done"
                      /\ c.outcome[1].kind = "failure"
                      /\ c.slept = c.delay
                      /\ c.delay > 0 => c.timer = Some(c.delay)

\* After an unlabelled handler had appended a todo, a request with a body won
\* by the labelled handler of delay 50 failed once the 50 had elapsed, and
\* the state holds the one todo still
C28_Witness ==
    \E s \in Slots :
        LET c == calls[s]
        IN  /\ LabelledWinner(c)
            /\ c.pc = "done"
            /\ c.endpoint[1].kind = "dynamic"
            /\ c.endpoint[1].networkError = Some("timeout")
            /\ c.request.body # None
            /\ c.delay = 50
            /\ c.slept = 50
            /\ c.outcome[1].kind = "failure"
            /\ Len(appended) = 1
            /\ "todos" \in DOMAIN state
            /\ Len(state.todos.items) = 1

--------------------------------------------------------------------------
(* Specification of the input shapes: fetch called with a string and an    *)
(* options argument, and with a Request object that carries its own        *)
(* method, headers and body and no options argument.                       *)

\* fetch(new Request(url, { method, headers, body })): the interceptor reads
\* input.url, which is absolute
RequestInput(path, method, headers, body) ==
    [kind |-> "request", url |-> Url(TRUE, path, <<>>), method |-> method,
     headers |-> headers, body |-> body]

ShapeEndpoints ==
    {Static("GET", UsersMe, "value", Plain("me")),
     Static("POST", UsersMe, "value", Plain("created")),
     [Static("GET", Users5, "value", Plain("user"))
         EXCEPT !.requestHeaders = Some("X-Mode" :> "a")],
     Dynamic("POST", Todos, "appendTodo"),
     Dynamic("GET", Todos, "readTodos")}

ShapeRequests ==
    {<<Input(UsersMe), RequestInit(Some("POST"), None)>>,
     <<RequestInput(UsersMe, "POST", EmptyObject, None), None>>,
     <<RequestInput(Users5, "GET", "X-Mode" :> "a", None), None>>,
     <<RequestInput(Todos, "POST", EmptyObject, Some(Stringify(TodoBody("First")))), None>>}

InitShape == InitWith({Config(None)}, {"fetch"})

NextShape ==
    \/ \E e \in ShapeEndpoints : mock(e)
    \/ \E e \in ShapeEndpoints : mockDynamic(e)
    \/ \E r \in ShapeRequests : Sequential /\ intercept(r[1], r[2])
    \/ \E s \in Slots : afterDelay(s)
    \/ \E s \in Slots : afterBody(s)

SpecShape == InitShape /\ [][NextShape]_vars

\* C29: a request given as a Request object with no options argument is
\* matched by the method of that object, and the request matched against
\* the header constraints and handed to the handler carries the headers and
\* the body of that object.
C29_Claimed ==
    \A s \in Slots :
        LET c == calls[s]
        IN  (c.pc # "none" /\ c.input.kind = "request" /\ c.init = None) =>
                /\ c.method = c.input.method
                /\ c.request.headers = LowerKeys(c.input.headers)
                /\ c.request.body = c.input.body
                /\ c.endpoint # None => c.endpoint[1].method = c.input.method
                /\ c.context # None =>
                      /\ c.context[1].headers = LowerKeys(c.input.headers)
                      /\ c.context[1].body
                            = parseRequestBody([body |-> c.input.body])

--------------------------------------------------------------------------
(* Specification of the default priority: definitions registered without a *)
(* priority and with priority 3, before and after the configuration's      *)
(* default priority is updated between 0 and 5.                            *)

DefaultPriorityUpdate(p) == [Config(None) EXCEPT !.defaultPriority = Some(p)]

DefaultPriorities == {0, 5}

DefaultEndpoints ==
    {Static("GET", UsersMe, "value", Plain("default")),
     Static("GET", UsersId, "value", Plain("default")),
     [Static("GET", UsersId, "value", Plain("explicit")) EXCEPT !.priority = Some(3)]}

InitDefault == InitWith({Config(None), DefaultPriorityUpdate(5)}, {"fetch"})

NextDefault ==
    \/ \E e \in DefaultEndpoints : mock(e)
    \/ \E p \in DefaultPriorities : updateConfig(DefaultPriorityUpdate(p))
    \/ \E p \in {UsersMe, UsersId} : remove("GET", p)
    \/ \E p \in {UsersMe, Users5} : Sequential /\ intercept(Input(p), None)
    \/ \E s \in Slots : afterDelay(s)

SpecDefault == InitDefault /\ [][NextDefault]_vars

\* The definitions of the registry, and the step from one registry to the
\* next as the claim has it
Definitions(reg) == Range(Flatten(reg))

DefaultPriorityStep ==
    /\ \A d \in Definitions(endpoints) : \A e \in Definitions(endpoints') :
          e.id = d.id => e.priority = d.priority
    /\ config'.defaultPriority # config.defaultPriority => endpoints' = endpoints
    /\ \A e \in Definitions(endpoints') :
          e.id = nextId =>
              e.priority = IF e.response.v = Plain("explicit") THEN 3
                           ELSE config.defaultPriority

\* C30: a definition registered without a priority gets the configuration's
\* default priority of the moment it is registered, and no later step, an
\* update of the default priority included, changes the priority of a
\* registered definition or the order of the registry: the update shows
\* only in the definitions registered after it.
C30_DefaultPriorityFixedAtRegistration == [][DefaultPriorityStep]_vars

\* The default priority is 5; /users/me was registered without a priority
\* under the default 0 and /users/:id, after the update, under the default
\* 5, and a request to /users/me was answered from /users/:id
C30_Witness ==
    /\ config.defaultPriority = 5
    /\ \E d, e \in Definitions(endpoints) :
          /\ d.path = UsersMe /\ d.priority = 0
          /\ e.path = UsersId /\ e.priority = 5 /\ e.response.v = Plain("default")
          /\ d.id < e.id
          /\ \E s \in Slots :
                /\ calls[s].pc = "done"
                /\ calls[s].request.url.path = UsersMe
                /\ calls[s].seen.config.defaultPriority = 5
                /\ calls[s].endpoint = Some(e)
                /\ calls[s].outcome[1].kind = "response"

--------------------------------------------------------------------------
(* Specification of invocations: handlers and response functions over      *)
(* overlapping patterns, one delayed, one of higher priority, one          *)
(* labelled, with the mocker switched off and on between requests and      *)
(* while a request waits.                                                  *)

InvokeEndpoints ==
    {Dynamic("GET", UsersMe, "echoParams"),
     [Dynamic("GET", UsersId, "readTodos") EXCEPT !.priority = Some(10)],
     Static("GET", UsersId, "function", Plain("user")),
     Delayed(Dynamic("POST", Todos, "appendTodo"), 50),
     Labelled(Dynamic("POST", Todos, "appendTodo"), "timeout")}

InvokeRequests ==
    {<<Input(UsersMe), None>>,
     <<Input(Users5), None>>,
     <<Input(Todos), RequestInit(Some("POST"), Some(Stringify(TodoBody("First"))))>>}

InitInvoke == InitWith({Config(None)}, {"fetch"})

NextInvoke ==
    \/ \E e \in InvokeEndpoints : mock(e)
    \/ \E e \in InvokeEndpoints : mockDynamic(e)
    \/ enable
    \/ disable
    \/ \E r \in InvokeRequests : Sequential /\ intercept(r[1], r[2])
    \/ \E s \in Slots : sleep(s)
    \/ \E s \in Slots : afterDelay(s)
    \/ \E s \in Slots : afterBody(s)

SpecInvoke == InitInvoke /\ [][NextInvoke]_vars

\* The winner of a call builds a payload by a call of user code
CallsUserCode(endpoint) ==
    /\ endpoint.networkError = None
    /\ \/ endpoint.kind = "dynamic"
       \/ endpoint.response.src \in {"function", "throws"}

\* C31: a call invokes at most one handler or response function. What it
\* invokes belongs to the definition that won the ranking among those the
\* interceptor found, it is invoked once the delay has elapsed, and a handler
\* gets the one context built for the call; a settled call whose winner
\* builds its payload by a handler or a response function has invoked it
\* exactly once; a call intercepted while the mocker was disabled, or that no
\* definition applied to, invokes nothing.
C31_AtMostOneInvocationPerRequest ==
    \A s \in Slots :
        LET c == calls[s]
        IN  c.pc # "none" =>
                /\ Len(c.invoked) <= 1
                /\ (~c.seen.enabled \/ c.endpoint = None) => c.invoked = <<>>
                /\ c.invoked # <<>> =>
                      /\ c.endpoint = findMatchingEndpoint(c.seen.reg, c.seen.config, c.method,
                                                           c.request.url, c.request)
                      /\ c.invoked[1].def = c.endpoint[1].id
                      /\ CallsUserCode(c.endpoint[1])
                      /\ c.pc \in {"handler", "done"}
                      /\ c.slept = c.delay
                      /\ c.endpoint[1].kind = "dynamic" =>
                            /\ c.invoked[1].context # None
                            /\ c.invoked[1].context = c.context
                      /\ c.endpoint[1].kind = "static" => c.invoked[1].context = None
                /\ (c.pc = "done" /\ c.endpoint # None /\ CallsUserCode(c.endpoint[1]))
                      => Len(c.invoked) = 1

\* A request to which a handler of priority 10, a more specific handler and
\* a response function applied was answered by one invocation, that of the
\* handler of priority 10
C31_Witness ==
    \E s \in Slots :
        LET c == calls[s]
        IN  /\ c.pc = "done"
            /\ Len(c.invoked) = 1
            /\ Cardinality({e \in Applicable(c) : CallsUserCode(e)}) = 3
            /\ c.endpoint[1].priority = 10
            /\ c.endpoint[1].handler = "readTodos"
            /\ c.invoked[1].def = c.endpoint[1].id
            /\ c.outcome[1].kind = "response"

--------------------------------------------------------------------------
(* Several instances over one global slot. Each instance of `mockers` has  *)
(* the fields of an ApiMocker: its configuration, its saved transport, its *)
(* flag and its registry; the slot holds the real transport or the         *)
(* interceptor of an instance. The operations are those of the class, with *)
(* the instance they are called on made explicit.                          *)

MaxMockers == 2

RealFetch == [kind |-> "fetch", of |-> 0]
InterceptFetch(m) == [kind |-> "intercept", of |-> m]

\* new ApiMocker(): the slot holds a function; the instance saves what the
\* slot holds and installs its own interceptor
constructorOf(c) ==
    /\ Len(mockers) < MaxMockers
    /\ mockers' = Append(mockers,
                         [config |-> createConfig(c), originalFetch |-> globalFetch,
                          isEnabled |-> TRUE, endpoints |-> <<>>, restored |-> FALSE,
                          late |-> \E m \in 1..Len(mockers) : mockers[m].restored])
    /\ globalFetch' = InterceptFetch(Len(mockers) + 1)
    /\ UNCHANGED <<endpoints, config, isEnabled, state, originalFetch, calls, nextId, appended,
                   construction>>

mockOf(m, endpoint) ==
    /\ nextId <= MaxRegs
    /\ endpoint.kind = "static"
    /\ mockers' = [mockers EXCEPT ![m].endpoints =
                      Register(@, mockers[m].config, endpoint, nextId)]
    /\ nextId' = nextId + 1
    /\ UNCHANGED <<endpoints, config, isEnabled, state, originalFetch, globalFetch, calls,
                   appended, construction>>

\* restore() of the instance m: both branches assign its saved transport
restoreOf(m) ==
    /\ globalFetch' = mockers[m].originalFetch
    /\ mockers' = [mockers EXCEPT ![m].restored = TRUE]
    /\ UNCHANGED <<endpoints, config, isEnabled, state, originalFetch, calls, nextId, appended,
                   construction>>

\* A request given to the transport t: the real transport takes it; the
\* interceptor of an instance answers it from the instance's registry or
\* hands input and init to the transport the instance saved.
RECURSIVE Through(_, _, _)
Through(t, input, init) ==
    IF t.kind = "fetch" THEN PassedThrough("fetch", input, init)
    ELSE LET mocker == mockers[t.of]
             absoluteUrl == toAbsoluteUrl(mocker.config, input.url)
             method == ToUpperCase(IF init = None THEN "GET" ELSE OrElse(init[1].method, "GET"))
             request == NewRequest(absoluteUrl, init)
             found == findMatchingEndpoint(mocker.endpoints, mocker.config, method,
                                           absoluteUrl, request)
         IN  IF ~mocker.isEnabled \/ found = None
             THEN Through(mocker.originalFetch, input, init)
             ELSE Respond(mocker.config, found[1], ResolveStatic(found[1]).v)

\* fetch(input, init) through the global slot, to its outcome. The endpoints
\* are static and without delay and no configuration is updated, so that
\* nothing another operation does between the match and the response shows
\* in the outcome.
fetchThroughSlot(input, init) ==
    /\ Sequential
    /\ calls' = [calls EXCEPT ![FreeSlot] =
                    [pc |-> "done", input |-> input, init |-> init, slot |-> globalFetch,
                     restoredAll |-> \A m \in 1..Len(mockers) : mockers[m].restored,
                     instances |-> Len(mockers),
                     outcome |-> Some(Through(globalFetch, input, init))]]
    /\ UNCHANGED <<endpoints, config, isEnabled, state, originalFetch, globalFetch, nextId,
                   appended, construction, mockers>>

MultiEndpoints == {Static("GET", UsersMe, "value", Plain("me"))}

MultiRequests == {<<Input(UsersMe), None>>}

InitMulti ==
    /\ NoInstance
    /\ globalFetch = RealFetch
    /\ calls = [s \in Slots |-> NoCall]
    /\ nextId = 1
    /\ appended = <<>>
    /\ construction = None
    /\ mockers = <<>>

NextMulti ==
    \/ constructorOf(Config(None))
    \/ \E m \in 1..Len(mockers), e \in MultiEndpoints : mockOf(m, e)
    \/ \E m \in 1..Len(mockers) : restoreOf(m)
    \/ \E r \in MultiRequests : fetchThroughSlot(r[1], r[2])

SpecMulti == InitMulti /\ [][NextMulti]_vars

\* C32: several instances were constructed one after another, none after a
\* restore(); once restore() has been called on every one of them, in
\* whatever order, the global slot holds the real transport, and a request
\* made from then on goes to the real transport.
C32_Claimed ==
    (/\ Len(mockers) >= 2
     /\ \A m \in 1..Len(mockers) : mockers[m].restored /\ ~mockers[m].late)
    => /\ globalFetch = RealFetch
       /\ \A s \in Slots :
             (/\ calls[s].pc = "done"
              /\ calls[s].restoredAll
              /\ calls[s].instances = Len(mockers))
             => calls[s].outcome[1].kind = "real"

--------------------------------------------------------------------------
(* Specification of operations during a request: a delayed static          *)
(* definition, a handler that appends to the state and a delayed handler   *)
(* that reads it, with disable, remove and clear called between requests   *)
(* and while a request waits.                                              *)

InflightEndpoints ==
    {Delayed(Static("GET", UsersMe, "value", Plain("me")), 50),
     Dynamic("POST", Todos, "appendTodo"),
     Delayed(Dynamic("GET", Todos, "readTodos"), 50)}

InflightRequests ==
    {<<Input(UsersMe), None>>,
     <<Input(Todos), None>>,
     <<Input(Todos), RequestInit(Some("POST"), Some(Stringify(TodoBody("First"))))>>}

InitInflight == InitWith({Config(None)}, {"fetch"})

NextInflight ==
    \/ \E e \in InflightEndpoints : mock(e)
    \/ \E e \in InflightEndpoints : mockDynamic(e)
    \/ disable
    \/ enable
    \/ \E e \in InflightEndpoints : remove(e.method, e.path)
    \/ clear
    \/ \E r \in InflightRequests : Sequential /\ intercept(r[1], r[2])
    \/ \E s \in Slots : sleep(s)
    \/ \E s \in Slots : afterDelay(s)
    \/ \E s \in Slots : afterBody(s)

SpecInflight == InitInflight /\ [][NextInflight]_vars

\* A call that was matched and has not run its handler yet
Waiting(c) == c.pc \in {"sleep", "delay", "body"}

\* What a waiting call completes with when it goes on with the state st
Expected(c, st) ==
    LET endpoint == c.endpoint[1]
        context == buildRequestContext(config, endpoint.path, c.request)
        ran == RunHandler(endpoint.handler, context, st)
        resolved == ResolveStatic(endpoint)
    IN  IF endpoint.networkError # None /\ endpoint.networkError[1] # ""
        THEN Rejected(simulateNetworkError(endpoint.networkError[1]), endpoint.id)
        ELSE IF endpoint.kind = "dynamic"
        THEN IF ran.ok THEN Respond(config, endpoint, ran.v)
             ELSE Rejected(ran.error, endpoint.id)
        ELSE IF resolved.ok THEN Respond(config, endpoint, resolved.v)
        ELSE Rejected(resolved.error, endpoint.id)

\* A step of disable, remove or clear
SwitchedOffOrUnregistered ==
    /\ nextId' = nextId
    /\ \/ isEnabled /\ ~isEnabled'
       \/ endpoints' # endpoints

\* The claim as stated: disable, remove and clear leave what every waiting
\* call completes with as it was.
C33_ClaimedStep ==
    SwitchedOffOrUnregistered =>
        \A s \in Slots :
            Waiting(calls[s]) =>
                /\ calls'[s] = calls[s]
                /\ Expected(calls[s], state') = Expected(calls[s], state)

C33_Claimed == [][C33_ClaimedStep]_vars

\* The steps of disable, remove and clear leave every waiting call as it is,
\* and leave what it completes with as it was unless the step is clear and
\* the definition is a handler: that one runs on the emptied state.
C33_Step ==
    SwitchedOffOrUnregistered =>
        \A s \in Slots :
            LET c == calls[s]
            IN  Waiting(c) =>
                    /\ calls'[s] = c
                    /\ Expected(c, state').def = c.endpoint[1].id
                    /\ (state' = state \/ c.endpoint[1].kind = "static")
                          => Expected(c, state') = Expected(c, state)
                    /\ Expected(c, state') \in {Expected(c, state), Expected(c, EmptyObject)}

\* A matched call goes on whatever the flag and the registry are, and it
\* completes from its definition, with what the definition gives on the
\* state of that moment, its delay elapsed.
C33_State ==
    \A s \in Slots :
        LET c == calls[s]
        IN  (c.pc # "none" /\ c.endpoint # None) =>
                /\ c.pc = "sleep" => ENABLED sleep(s)
                /\ c.pc = "delay" =>
                      /\ ENABLED afterDelay(s)
                      /\ ~ENABLED (/\ afterDelay(s)
                                   /\ calls'[s].pc = "done"
                                   /\ calls'[s].outcome # Some(Expected(c, state)))
                /\ c.pc = "body" =>
                      /\ ENABLED afterBody(s)
                      /\ ~ENABLED (/\ afterBody(s)
                                   /\ calls'[s].outcome # Some(Expected(c, state)))
                /\ c.pc = "done" =>
                      /\ c.outcome[1].kind \in {"response", "failure"}
                      /\ c.outcome[1].def = c.endpoint[1].id
                      /\ c.slept = c.delay

\* C33: a request matched to a definition before disable(), remove() or
\* clear() still completes from that definition, with its response or its
\* failure, after its delay: the call goes on whatever the flag and the
\* registry have become. disable() and remove() leave what it completes with
\* as it was; clear(), which empties the state, does so for a static
\* definition, while a handler runs on the emptied state.
C33_MatchedRequestCompletesFromItsDefinition == []C33_State /\ [][C33_Step]_vars

\* A request matched by the delayed handler that reads the todos waits, its
\* timer fired, in a mocker that was disabled and cleared since: the state
\* held a todo when it was matched and is empty now
C33_Witness ==
    \E s \in Slots :
        LET c == calls[s]
        IN  /\ c.pc = "delay"
            /\ c.endpoint # None
            /\ c.endpoint[1].handler = "readTodos"
            /\ c.slept = 50
            /\ c.seen.enabled
            /\ c.seen.reg # <<>>
            /\ ~isEnabled
            /\ endpoints = <<>>
            /\ state = EmptyObject
            /\ nextId = MaxRegs

--------------------------------------------------------------------------
(* Specification of a synchronous read-modify-write handler under          *)
(* concurrent requests: it increments state.counter and returns the count, *)
(* with a delay of 50 and, at a higher priority, without one, the counter  *)
(* set to 0 or 3 or left absent before the requests, each slot taking one  *)
(* request.                                                                *)

SyncEndpoints ==
    {[Dynamic("POST", Counter, "increment") EXCEPT !.priority = Some(1)],
     Delayed(Dynamic("POST", Counter, "increment"), 50)}

SyncRequest == <<Input(Counter), RequestInit(Some("POST"), None)>>

InitialCounters == {0, 3}

InitSync == InitWith({Config(None)}, {"fetch"})

NoRequestYet == \A s \in Slots : calls[s].pc = "none"

NextSync ==
    \/ \E e \in SyncEndpoints : mockDynamic(e)
    \/ \E v \in InitialCounters : NoRequestYet /\ setState("counter", v)
    \/ /\ \E s \in Slots : ~InFlight(s)
       /\ calls[FreeSlot].pc = "none"
       /\ intercept(SyncRequest[1], SyncRequest[2])
    \/ \E s \in Slots : sleep(s)
    \/ \E s \in Slots : afterDelay(s)
    \/ \E s \in Slots : afterBody(s)

SpecSync == InitSync /\ [][NextSync]_vars

\* state.counter || 0
CounterNow == IF "counter" \in DOMAIN state THEN state.counter ELSE 0

\* The calls the handler has answered, and the count each response carries
CountsAnswered == {s \in Slots : calls[s].pc = "done" /\ calls[s].endpoint # None}

CountOf(s) == calls[s].outcome[1].response.body[1].of.f.count

\* C34: the handler's read-modify-write is one step with respect to every
\* other request. Whatever the other calls are doing, a call's handler step
\* adds exactly one to the counter and answers the new count; the N calls
\* answered so far carry N distinct counts, the N values that follow the
\* initial one, and the counter is the initial value plus N.
C34_SynchronousIncrementIsAtomic ==
    /\ \A s \in Slots :
          calls[s].pc = "body" =>
              /\ ENABLED afterBody(s)
              /\ ~ENABLED (/\ afterBody(s)
                           /\ ~(/\ state' = Spread(state, [counter |-> CounterNow + 1])
                                /\ calls'[s].pc = "done"
                                /\ calls'[s].outcome[1].kind = "response"
                                /\ calls'[s].outcome[1].response.body
                                      = Some(Stringify([t |-> "object",
                                                        f |-> [count |-> CounterNow + 1]]))))
    /\ \A s, r \in CountsAnswered : s # r => CountOf(s) # CountOf(r)
    /\ {CountOf(s) : s \in CountsAnswered}
          = (CounterNow - Cardinality(CountsAnswered) + 1)..CounterNow
    /\ (CountsAnswered = {} /\ ~NoRequestYet) => CounterNow \in InitialCounters \cup {0}
    /\ CountsAnswered # {} => CounterNow - Cardinality(CountsAnswered) \in InitialCounters \cup {0}

\* Two requests were in flight together, the first with a delay of 50 and
\* the second without: the second was answered 4 and the first, after its
\* delay, 5, from the counter set to 3
C34_Witness ==
    /\ CounterNow = 5
    /\ CountsAnswered = {1, 2}
    /\ calls[1].delay = 50
    /\ calls[1].slept = 50
    /\ calls[2].delay = 0
    /\ calls[2].seen.reg # calls[1].seen.reg
    /\ CountOf(1) = 5
    /\ CountOf(2) = 4

--------------------------------------------------------------------------
(* Specification of a predicate that throws: a GET definition whose        *)
(* predicate throws, next to a GET handler of another path and a POST      *)
(* definition of its own path, with requests of both methods to its path,  *)
(* to another mocked path and to a path nobody mocks.                      *)

PredicateEndpoints ==
    {[Static("GET", UsersMe, "value", Plain("me")) EXCEPT !.match = Some("throws")],
     [Dynamic("GET", Users5, "echoParams") EXCEPT !.priority = Some(10)],
     Static("POST", UsersMe, "value", Plain("created"))}

PredicateRequests ==
    {<<Input(UsersMe), None>>,
     <<Input(Users5), None>>,
     <<Input(Counter), None>>,
     <<Input(UsersMe), RequestInit(Some("POST"), None)>>}

InitPredicate == InitWith({Config(None)}, {"fetch"})

NextPredicate ==
    \/ \E e \in PredicateEndpoints : mock(e)
    \/ \E e \in PredicateEndpoints : mockDynamic(e)
    \/ remove("GET", UsersMe)
    \/ disable
    \/ enable
    \/ setState("testKey", "testValue")
    \/ \E r \in PredicateRequests : Sequential /\ intercept(r[1], r[2])
    \/ \E s \in Slots : afterDelay(s)
    \/ \E s \in Slots : afterBody(s)

SpecPredicate == InitPredicate /\ [][NextPredicate]_vars

\* What the predicate of the model throws
PredicateError == [name |-> "Error", message |-> "match failed"]

FailedOnPredicate(c) ==
    /\ c.pc = "done"
    /\ c.outcome[1].kind = "failure"
    /\ c.outcome[1].error = PredicateError

\* The registry without the definitions whose predicate throws
WithoutThrowing(reg) ==
    [i \in 1..Len(reg) |->
        [reg[i] EXCEPT !.list = SelectSeq(@, LAMBDA e : ~(e.match # None
                                                          /\ MatchThrows(e.match[1])))]]

\* A request made while mocking is enabled, of the method of a registered
\* definition whose predicate throws, has failed with the predicate's error
\* by the time the interceptor returns, whatever its path and whatever else
\* applies to it, with no definition chosen and nothing invoked; a request
\* of another method, or made while mocking is disabled, does not fail so
\* and gets what it would get were that definition not registered.
C35_State ==
    \A s \in Slots :
        LET c == calls[s]
            throwing == {e \in Range(Flatten(c.seen.reg)) :
                            e.match # None /\ MatchThrows(e.match[1])}
        IN  c.pc # "none" =>
                /\ (c.seen.enabled /\ \E e \in throwing : e.method = c.method) =>
                      /\ FailedOnPredicate(c)
                      /\ c.endpoint = None
                      /\ c.context = None
                      /\ c.invoked = <<>>
                /\ (~c.seen.enabled \/ \A e \in throwing : e.method # c.method) =>
                      /\ ~FailedOnPredicate(c)
                      /\ c.seen.enabled =>
                            c.endpoint = findMatchingEndpoint(WithoutThrowing(c.seen.reg),
                                                              c.seen.config, c.method,
                                                              c.request.url, c.request)

\* The step in which a call fails on a predicate changes nothing else
C35_Step ==
    \A s \in Slots :
        (calls[s] # calls'[s] /\ FailedOnPredicate(calls'[s]))
            => UNCHANGED <<endpoints, state, config, isEnabled, originalFetch, appended>>

\* C35: a predicate that throws fails every request of its definition's
\* method made while mocking is enabled, with the error it threw, whatever
\* the path of the request and whatever other definition would apply; the
\* registry, the state and the configuration stay as they are, and requests
\* of other methods are answered as if the definition were not there.
C35_ThrowingPredicateFailsItsMethod == []C35_State /\ [][C35_Step]_vars

\* A GET request to /users/5 failed on the predicate of the definition for
\* /users/me, although the handler for /users/5, of priority 10, applies
C35_Witness ==
    \E s \in Slots :
        LET c == calls[s]
        IN  /\ FailedOnPredicate(c)
            /\ c.seen.enabled
            /\ c.request.url.path = Users5
            /\ \E e \in Range(Flatten(c.seen.reg)) :
                  /\ e.path = Users5
                  /\ e.priority = 10
                  /\ matchesEndpoint(c.seen.config, e, c.method, c.request.url, c.request)
            /\ \E e \in Range(Flatten(c.seen.reg)) : e.path = UsersMe /\ e.match = Some("throws")
            /\ state # EmptyObject

--------------------------------------------------------------------------
(* The query seen by the matcher and by the handler, over the endpoints of *)
(* the matcher                                                             *)

\* C36: whenever a handler with a query constraint wins a request, the
\* queryParams of the context built for it map every constraint key to the
\* constraint's value, also when the query string repeats the key.
C36_Claimed ==
    \A s \in Slots :
        LET c == calls[s]
        IN  (/\ c.pc # "none"
             /\ c.endpoint # None
             /\ c.endpoint[1].kind = "dynamic"
             /\ c.endpoint[1].queryParams # None
             /\ c.context # None)
            => \A key \in DOMAIN c.endpoint[1].queryParams[1] :
                  /\ key \in DOMAIN c.context[1].queryParams
                  /\ c.context[1].queryParams[key] = c.endpoint[1].queryParams[1][key]

--------------------------------------------------------------------------
(* Specification of the base URL: static endpoints under the base path     *)
(* /api, requests under it, beside it and outside it, awaited one after    *)
(* the other.                                                              *)

V2UsersMe == Path(<<"v2", "users", "me">>, TRUE, FALSE)
Apiv2UsersMe == Path(<<"apiv2", "users", "me">>, TRUE, FALSE)

BaseEndpoints ==
    {Static("GET", UsersMe, "value", Plain("me")),
     Static("GET", V2UsersMe, "value", Plain("v2")),
     [Static("GET", Users5, "value", Plain("five")) EXCEPT !.delay = Some(50)]}

BaseRequests ==
    {<<Input(ApiUsersMe), None>>,
     <<Input(Path(<<"users", "me">>, FALSE, FALSE)), None>>,
     <<Input(UsersMe), None>>,
     <<Input(Apiv2UsersMe), None>>,
     <<Input(Users5), None>>,
     <<Input(Todos), None>>}

InitBase == InitWith({Config(Some(ApiBase))}, {"fetch"})

NextBase ==
    \/ \E e \in BaseEndpoints : mock(e)
    \/ \E e \in BaseEndpoints : remove(e.method, e.path)
    \/ disable
    \/ enable
    \/ \E r \in BaseRequests : Sequential /\ intercept(r[1], r[2])
    \/ \E s \in Slots : sleep(s)
    \/ \E s \in Slots : afterDelay(s)

SpecBase == InitBase /\ [][NextBase]_vars

\* The path of the request begins with the base path, every segment of the
\* base path a whole segment of the request's
UnderBasePath(cfg, url) ==
    LET segs == normalizePath(toAbsoluteUrl(cfg, url).path).segs
        basePath == getBasePath(cfg)
    IN  Len(basePath) <= Len(segs) /\ SubSeq(segs, 1, Len(basePath)) = basePath

\* C37: with a base URL configured, a request whose path does not lie under
\* the base URL's path at a segment boundary is resolved to no endpoint and
\* has the saved transport's result.
C37_Claimed ==
    \A s \in Slots :
        LET c == calls[s]
        IN  (/\ Matched(c)
             /\ c.seen.config.baseUrl # None
             /\ ~UnderBasePath(c.seen.config, c.input.url))
            => /\ c.endpoint = None
               /\ c.outcome = Some(PassedThrough(c.seen.originalFetch, c.input, c.init))

--------------------------------------------------------------------------
(* Specification of settlement: delayed, failing and handled endpoints,    *)
(* registered before the first request, each request issued once while     *)
(* others are under way; the timers fire and the continuations of the      *)
(* awaits run.                                                             *)

SettleEndpoints ==
    {Delayed(Static("GET", UsersMe, "value", Plain("me")), 50),
     [Static("GET", Users5, "value", Plain("five")) EXCEPT !.networkError = Some("timeout")]}

SettleHandlers ==
    {Delayed(Dynamic("POST", Counter, "asyncIncrement"), 50)}

SettleRequests ==
    {<<Input(UsersMe), None>>,
     <<Input(Users5), None>>,
     <<Input(Counter), RequestInit(Some("POST"), None)>>,
     <<Input(Counter), None>>}

InitSettle == InitWith({Config(None)}, {"fetch"})

NextSettle ==
    \/ \E e \in SettleEndpoints : NoRequestYet /\ mock(e)
    \/ \E e \in SettleHandlers : NoRequestYet /\ mockDynamic(e)
    \/ \E r \in SettleRequests :
          /\ \E s \in Slots : ~InFlight(s)
          /\ calls[FreeSlot].pc = "none"
          /\ intercept(r[1], r[2])
    \/ \E s \in Slots : sleep(s)
    \/ \E s \in Slots : afterDelay(s)
    \/ \E s \in Slots : afterBody(s)
    \/ \E s \in Slots : afterHandler(s)

\* The event loop: setTimeout calls back after its delay and the job queue
\* runs the continuation of an await on a settled promise, so while a call
\* has a step to take, some call takes one.
RunLoop == \E s \in Slots : sleep(s) \/ afterDelay(s) \/ afterBody(s) \/ afterHandler(s)

FairSettle == WF_vars(RunLoop)

SpecSettle == InitSettle /\ [][NextSettle]_vars /\ FairSettle

\* The ways a call settles: the saved transport's result, a mock response, a
\* failure thrown by user code or simulated
SettledOutcome(c) ==
    /\ c.outcome # None
    /\ c.outcome[1].kind \in {"real", "response", "failure"}

\* C38: every intercepted call settles: a call under way is eventually done,
\* with the saved transport's result, a mock response or a failure; a call
\* that has not settled has no outcome, and a settled call is not changed
\* again.
C38_EveryCallSettlesOnce ==
    /\ \A s \in Slots : InFlight(s) ~> (calls[s].pc = "done")
    /\ [](\A s \in Slots :
             /\ calls[s].pc = "done" => SettledOutcome(calls[s])
             /\ InFlight(s) => calls[s].outcome = None)
    /\ [][\A s \in Slots : calls[s].pc = "done" => calls'[s] = calls[s]]_vars

\* A call settled after its timer fired while another one, issued after it,
\* had already settled with a failure
C38_Witness ==
    \E s, r \in Slots :
        /\ calls[s].pc = "done" /\ calls[s].slept > 0
        /\ calls[s].outcome[1].kind = "response"
        /\ calls[r].pc = "done" /\ calls[r].outcome[1].kind = "failure"
        /\ r > s

==========================================================================
